---------------------------- MODULE Spec2Model ----------------------------
(***************************************************************************)
(* A model of the Ember scripting language core: the indentation-aware     *)
(* lexer (src/src/lexer.c), the bytecode compiler with its symbol table    *)
(* (src/src/compiler.c) and the stack virtual machine                      *)
(* (src/src/virtual_machine.c), with the value copies of src/src/runtime.c.*)
(*                                                                         *)
(* Three specifications share the variables:                               *)
(*   Spec      the exec pipeline: an AST is compiled by compile_ast and    *)
(*             the chunk is run by vm_run, one action per instruction;     *)
(*   SpecLexer repeated lexer_next_token calls over an input text;         *)
(*   SpecJump  emit_jump / patch_jump over chunks of any length.           *)
(***************************************************************************)
EXTENDS Integers, Sequences, FiniteSets, TLC

VARIABLES
    pc,             \* position of the driver (main.c) / of the harness
    operand_order,  \* the build's evaluation order of the two unsequenced ip++ reads
    ast,            \* the parsed program: the root AST_BLOCK's statements
    chunk,          \* BytecodeChunk: [code, constants]
    symtab,         \* SymbolTable: sequence of Symbol
    diagnostics,    \* compile errors written to stderr, in order
    compile_ok,     \* what compile_ast returned
    vm,             \* VM: [ip, stack, stack_top, stderr, exited]
    g_globals,      \* static RuntimeValue g_globals[256]
    result,         \* what vm_run returned (-1: has not returned)
    output,         \* lines OP_PRINT wrote to stdout
    lexer,          \* Lexer struct, with the input text in .source
    tokens,         \* token types lexer_next_token has returned so far
    jchunk,         \* SpecJump: the compile state under emit_jump / patch_jump
    jsites,         \* SpecJump: the sites emit_jump returned, with their targets
    file,           \* the bytecode file write_chunk wrote
    heap,           \* runtime values with the storage each owns
    parser,         \* Parser: the tokens, the position in them, the errors
    other_vm        \* a second VM instance, while it is not the one scheduled

vars == <<pc, operand_order, ast, chunk, symtab, diagnostics, compile_ok, vm,
          g_globals, result, output, lexer, tokens, jchunk, jsites, file, heap,
          parser, other_vm>>

----------------------------------------------------------------------------
(* Bounds of the model *)

MaxSetup == 2       \* declarations in front of the statement under test
MaxLines == 3       \* lines of a lexer input
MaxIndent == 2      \* widest leading whitespace of a lexer input line
MaxJumps == 2       \* forward jumps emitted in SpecJump
MaxBody == 65536    \* bytes of the longest body between a jump and its target
MaxPushes == 2      \* values a called function leaves above its return marker
MaxArgs == 1        \* arguments of a call in SpecCall
MaxVars == 257      \* distinct variable names of a program in SpecVars
MaxConstants == 2   \* constants of a chunk in SpecCodec

----------------------------------------------------------------------------
(* Opcodes: enum OpCode of include/virtual_machine.h *)

OP_NOOP == 0
OP_EOF == 1
OP_POP == 2
OP_DUP == 3
OP_SWAP == 4
OP_LOAD_CONST == 5
OP_LOAD_VAR == 6
OP_STORE_VAR == 7
OP_ADD == 12
OP_SUB == 13
OP_MUL == 14
OP_DIV == 15
OP_NOT == 18
OP_AND == 19
OP_OR == 20
OP_EQ == 21
OP_NEQ == 22
OP_LT == 23
OP_GT == 24
OP_LTE == 25
OP_GTE == 26
OP_JUMP == 27
OP_JUMP_IF_FALSE == 28
OP_LOOP == 30
OP_CALL == 31
OP_RETURN == 32
OP_NEW_OBJECT == 38
OP_SET_PROPERTY == 39
OP_SET_NESTED_PROPERTY == 40
OP_GET_PROPERTY == 41
OP_COPY_PROPERTIES == 42
OP_PRINT == 43

STACK_CAPACITY == 256   \* vm->stack_capacity set by vm_create
GLOBALS_SIZE == 256     \* g_globals[256]

----------------------------------------------------------------------------
(* RuntimeValue: the tagged union of runtime.h.  Only the active variant   *)
(* of the union is kept; the other fields hold their zero.                 *)

NullValue ==
    [type |-> "NULL", number_value |-> 0, boolean_value |-> FALSE,
     string_value |-> "", count |-> 0, keys |-> <<>>, values |-> <<>>]

NumberValue(n) == [NullValue EXCEPT !.type = "NUMBER", !.number_value = n]

BooleanValue(b) == [NullValue EXCEPT !.type = "BOOLEAN", !.boolean_value = b]

StringValue(s) == [NullValue EXCEPT !.type = "STRING", !.string_value = s]

EmptyObject == [NullValue EXCEPT !.type = "OBJECT"]

\* array_value: count and elements, kept in the fields count and values.
ArrayValue(elements) ==
    [NullValue EXCEPT !.type = "ARRAY", !.count = Len(elements),
                      !.values = elements]

\* runtime_value_copy that copies the keys of an object and not its values.
runtime_value_copy_keys_only(value) ==
    IF value.type = "OBJECT" /\ value.count > 0
    THEN [value EXCEPT !.values = <<>>]
    ELSE value

\* runtime_value_copy: strings are strdup'ed, objects copied key by key and
\* value by value; an object with count = 0 is copied as the struct.
RECURSIVE runtime_value_copy(_)
runtime_value_copy(value) ==
    IF value.type = "OBJECT" /\ value.count > 0
    THEN [value EXCEPT
            !.keys = [i \in 1..value.count |-> value.keys[i]],
            !.values = [i \in 1..value.count |->
                            runtime_value_copy(value.values[i])]]
    ELSE value

\* Index (1-based) of the first key equal to prop, 0 when there is none.
FindKey(obj, prop) ==
    IF \E i \in 1..obj.count : obj.keys[i] = prop
    THEN CHOOSE i \in 1..obj.count :
            /\ obj.keys[i] = prop
            /\ \A j \in 1..(i - 1) : obj.keys[j] # prop
    ELSE 0

\* vm_add_property that leaves the value of an existing key as it is.
vm_add_property_keep_existing(obj, propName, value) ==
    IF obj.type # "OBJECT" THEN obj
    ELSE LET i == FindKey(obj, propName) IN
         IF i > 0
         THEN obj
         ELSE [obj EXCEPT !.keys = Append(obj.keys, propName),
                          !.values = Append(obj.values, runtime_value_copy(value)),
                          !.count = obj.count + 1]

\* vm_add_property that puts a new key in front of the existing keys.
vm_add_property_in_front(obj, propName, value) ==
    IF obj.type # "OBJECT" THEN obj
    ELSE LET i == FindKey(obj, propName) IN
         IF i > 0
         THEN [obj EXCEPT !.values[i] = runtime_value_copy(value)]
         ELSE [obj EXCEPT !.keys = <<propName>> \o obj.keys,
                          !.values = <<runtime_value_copy(value)>> \o obj.values,
                          !.count = obj.count + 1]

\* vm_add_property: replace the value of an existing key in place, else append.
vm_add_property(obj, propName, value) ==
    IF obj.type # "OBJECT" THEN obj
    ELSE LET i == FindKey(obj, propName) IN
         IF i > 0
         THEN [obj EXCEPT !.values[i] = runtime_value_copy(value)]
         ELSE [obj EXCEPT !.keys = Append(obj.keys, propName),
                          !.values = Append(obj.values, runtime_value_copy(value)),
                          !.count = obj.count + 1]

----------------------------------------------------------------------------
(* AST nodes (struct ASTNode of include/parser.h), as the parser builds    *)
(* them.  NoNode stands for a NULL child pointer.                          *)

NoNode == [type |-> "NULL"]

Literal(token_type, value) ==
    [type |-> "AST_LITERAL", token_type |-> token_type, value |-> value]

Variable(name) == [type |-> "AST_VARIABLE", variable_name |-> name]

Assignment(variable, value) ==
    [type |-> "AST_ASSIGNMENT", variable |-> variable, value |-> value]

BinaryOp(left, op_symbol, right) ==
    [type |-> "AST_BINARY_OP", left |-> left, op_symbol |-> op_symbol,
     right |-> right]

FunctionCall(function_name, arguments) ==
    [type |-> "AST_FUNCTION_CALL", function_name |-> function_name,
     arguments |-> arguments]

FunctionDef(function_name, parameters, body) ==
    [type |-> "AST_FUNCTION_DEF", function_name |-> function_name,
     parameters |-> parameters, body |-> body]

ObjectLiteral(mixins, keys, values) ==
    [type |-> "AST_OBJECT_LITERAL", mixins |-> mixins, keys |-> keys,
     values |-> values]

PropertyAccess(object, property) ==
    [type |-> "AST_PROPERTY_ACCESS", object |-> object, property |-> property]

\* parse_expression turns `<property access> = value` into this node: the
\* object and property of the access on the left, and the right-hand side.
PropertyAssignment(object, property, value) ==
    [type |-> "AST_PROPERTY_ASSIGNMENT", object |-> object,
     property |-> property, value |-> value]

VariableDecl(variable_name, initial_value, is_mutable) ==
    [type |-> "AST_VARIABLE_DECL", variable_name |-> variable_name,
     initial_value |-> initial_value, is_mutable |-> is_mutable]

IfStatement(condition, body, else_body) ==
    [type |-> "AST_IF_STATEMENT", condition |-> condition, body |-> body,
     else_body |-> else_body]

WhileLoop(condition, body) ==
    [type |-> "AST_WHILE_LOOP", condition |-> condition, body |-> body]

Block(statements) == [type |-> "AST_BLOCK", statements |-> statements]

Import(import_path) == [type |-> "AST_IMPORT", import_path |-> import_path]

----------------------------------------------------------------------------
(* Symbol table (compiler.c)                                               *)

\* Index (1-based) of the first symbol called name, 0 when there is none.
FindSymbol(table, name) ==
    IF \E i \in 1..Len(table) : table[i].name = name
    THEN CHOOSE i \in 1..Len(table) :
            /\ table[i].name = name
            /\ \A j \in 1..(i - 1) : table[j].name # name
    ELSE 0

\* symbol_table_get_or_add that adds a symbol without looking for the name.
symbol_table_get_or_add_unchecked(table, name, isFunction) ==
    [table |-> Append(table, [name |-> name, index |-> Len(table),
                              isFunction |-> isFunction,
                              is_mutable |-> TRUE]),
     index |-> Len(table)]

symbol_table_get_or_add(table, name, isFunction) ==
    LET i == FindSymbol(table, name) IN
    IF i > 0
    THEN [table |-> table, index |-> table[i].index]
    ELSE [table |-> Append(table, [name |-> name, index |-> Len(table),
                                   isFunction |-> isFunction,
                                   is_mutable |-> TRUE]),
          index |-> Len(table)]

symbol_table_get_or_add_variable(table, name, is_mutable) ==
    IF FindSymbol(table, name) > 0
    THEN [table |-> table, index |-> -1]
    ELSE [table |-> Append(table, [name |-> name, index |-> Len(table),
                                   isFunction |-> FALSE,
                                   is_mutable |-> is_mutable]),
          index |-> Len(table)]

symbol_table_is_variable_mutable(table, name) ==
    LET i == FindSymbol(table, name) IN
    IF i = 0 THEN FALSE
    ELSE IF table[i].isFunction THEN FALSE ELSE table[i].is_mutable

\* The lookup of AST_FUNCTION_CALL: the first symbol that is a function and
\* has the name; its index, or -1.
FindFunction(table, name) ==
    IF \E i \in 1..Len(table) : table[i].isFunction /\ table[i].name = name
    THEN LET i == CHOOSE k \in 1..Len(table) :
                    /\ table[k].isFunction /\ table[k].name = name
                    /\ \A j \in 1..(k - 1) :
                          ~(table[j].isFunction /\ table[j].name = name)
         IN table[i].index
    ELSE -1

----------------------------------------------------------------------------
(* Emission (compiler.c).  A compile state cs is the chunk and the symbol  *)
(* table the compile_* functions write through their pointer arguments,    *)
(* and the errors they print.                                              *)

emit_byte(cs, byte) ==
    [cs EXCEPT !.chunk.code = Append(@, byte % 256)]

\* Consecutive emit_byte calls, one for each element of bytes.
emit_bytes(cs, bytes) ==
    [cs EXCEPT !.chunk.code = @ \o [i \in 1..Len(bytes) |-> bytes[i] % 256]]

\* The opcode and its 16-bit operand, high byte first.
emit_var_op(cs, op, varIndex) ==
    emit_bytes(cs, <<op, (varIndex \div 256) % 256, varIndex % 256>>)

\* emit_jump: the opcode and the placeholder 0xFF 0xFF.  The site it returns
\* is JumpSite of the state after it.
emit_jump(cs, jumpOp) == emit_bytes(cs, <<jumpOp, 255, 255>>)

\* C's sequencing of two calls on the same chunk and symbol table: first is
\* carried out in full, and rest continues from the state it left.
Then(first, rest(_)) == CHOOSE r \in {rest(c) : c \in {first}} : TRUE

JumpSite(cs) == Len(cs.chunk.code) - 2

patch_jump(cs, offset) ==
    LET jump_distance == Len(cs.chunk.code) - offset - 2 IN
    [cs EXCEPT !.chunk.code[offset + 1] = (jump_distance \div 256) % 256,
               !.chunk.code[offset + 2] = jump_distance % 256]

\* The end of every loop compile_statement emits: OP_LOOP and, high byte
\* first, `offset = chunk->code_count - loopStart + 2` taken after the opcode.
emit_loop(cs, loopStart) ==
    LET c1 == emit_byte(cs, OP_LOOP)
        offset == Len(c1.chunk.code) - loopStart + 2
    IN emit_bytes(c1, <<(offset \div 256) % 256, offset % 256>>)

\* emit_constant, with vm_chunk_add_constant: the new constant's index is
\* cast to one byte.
emit_constant(cs, val) ==
    LET index == Len(cs.chunk.constants) IN
    [cs EXCEPT !.chunk.constants = Append(@, val),
               !.chunk.code = @ \o <<OP_LOAD_CONST, index % 256>>]

Report(cs, message) == [cs EXCEPT !.diagnostics = Append(@, message)]

\* atof on the lexemes the programs below use.
Atof(s) ==
    CASE s = "0" -> 0 [] s = "1" -> 1 [] s = "2" -> 2 [] s = "3" -> 3
      [] s = "5" -> 5 [] s = "42" -> 42 [] OTHER -> 0

LiteralValue(node) ==
    CASE node.token_type = "TOKEN_NUMBER" -> NumberValue(Atof(node.value))
      [] node.token_type = "TOKEN_STRING" -> StringValue(node.value)
      [] node.token_type = "TOKEN_BOOLEAN" -> BooleanValue(node.value = "true")
      [] OTHER -> NullValue

\* The opcode compile_expression picks for a binary operator, -1 for the
\* operators it reports as unsupported.
BinaryOpcode(op) ==
    CASE op = "+" -> OP_ADD [] op = "-" -> OP_SUB [] op = "*" -> OP_MUL
      [] op = "/" -> OP_DIV [] op = "==" -> OP_EQ [] op = "!=" -> OP_NEQ
      [] op = "<" -> OP_LT [] op = ">" -> OP_GT [] op = "<=" -> OP_LTE
      [] op = ">=" -> OP_GTE [] op = "&&" -> OP_AND [] op = "||" -> OP_OR
      [] OTHER -> -1

\* utils_is_package_installed: the registry of the package manager.
InstalledPackages == {"ember/net"}

\* True when the import path ends in ".ember".
IsLocalFile(path) == path \in {"lib.ember", "gone.ember"}

\* read_file: the local files that can be opened.
LocalFiles == {"lib.ember"}

\* parse_script on the text of lib.ember, which is print(5).
ImportedScript(path) ==
    Block(<<FunctionCall("print", <<Literal("TOKEN_NUMBER", "5")>>)>>)

\* The import case without the removal of the imported OP_EOF.
KeepTrailingEof(cs) == cs

\* The end of the local import: drop the OP_EOF compile_ast appended.
StripTrailingEof(cs) ==
    LET code == cs.chunk.code
    IN IF Len(code) > 0 /\ code[Len(code)] = OP_EOF
       THEN [cs EXCEPT !.chunk.code = SubSeq(code, 1, Len(code) - 1)]
       ELSE cs

RECURSIVE compile_expression(_, _)
RECURSIVE compile_arguments(_, _, _, _)
RECURSIVE compile_mixins(_, _, _)
RECURSIVE compile_properties(_, _, _)
RECURSIVE compile_statement(_, _)
RECURSIVE compile_node(_, _)
RECURSIVE compile_range(_, _, _, _)

\* The loops over a call's arguments: from index i, stepping by step (+1
\* for print, -1 for a user function), while i is an index of arguments.
compile_arguments(arguments, i, step, cs) ==
    IF i < 1 \/ i > Len(arguments) THEN cs
    ELSE Then(compile_expression(arguments[i], cs),
              LAMBDA c : compile_arguments(arguments, i + step, step, c))

\* The mixin loop of AST_OBJECT_LITERAL: dup, load the mixin, copy-properties.
compile_mixins(node, i, cs) ==
    IF i > Len(node.mixins) THEN cs
    ELSE LET r == symbol_table_get_or_add(cs.symtab, node.mixins[i], FALSE)
             c1 == emit_byte([cs EXCEPT !.symtab = r.table], OP_DUP)
             c2 == emit_var_op(c1, OP_LOAD_VAR, r.index)
         IN Then(emit_byte(c2, OP_COPY_PROPERTIES),
                 LAMBDA c : compile_mixins(node, i + 1, c))

\* The property loop of AST_OBJECT_LITERAL: dup, key, value, set-property,
\* swap, pop.
compile_properties(node, i, cs) ==
    IF i > Len(node.keys) THEN cs
    ELSE LET c1 == emit_constant(emit_byte(cs, OP_DUP), StringValue(node.keys[i]))
             c2 == compile_expression(node.values[i], c1)
         IN Then(emit_bytes(c2, <<OP_SET_PROPERTY, OP_SWAP, OP_POP>>),
                 LAMBDA c : compile_properties(node, i + 1, c))

compile_expression(node, cs) ==
    CASE node.type = "AST_LITERAL" -> emit_constant(cs, LiteralValue(node))
      [] node.type = "AST_VARIABLE" ->
            LET r == symbol_table_get_or_add(cs.symtab, node.variable_name, FALSE)
            IN emit_var_op([cs EXCEPT !.symtab = r.table], OP_LOAD_VAR, r.index)
      [] node.type = "AST_ASSIGNMENT" ->
            IF ~symbol_table_is_variable_mutable(cs.symtab, node.variable)
            THEN Report(cs, "immutable")
            ELSE LET c1 == compile_expression(node.value, cs)
                     r == symbol_table_get_or_add(c1.symtab, node.variable, FALSE)
                 IN emit_var_op([c1 EXCEPT !.symtab = r.table], OP_STORE_VAR,
                                r.index)
      [] node.type = "AST_BINARY_OP" ->
            LET c2 == compile_expression(node.right,
                                         compile_expression(node.left, cs))
            IN IF BinaryOpcode(node.op_symbol) >= 0
               THEN emit_byte(c2, BinaryOpcode(node.op_symbol))
               ELSE Report(c2, "unsupported operator")
      [] node.type = "AST_FUNCTION_CALL" ->
            IF node.function_name = "print"
            THEN emit_byte(compile_arguments(node.arguments, 1, 1, cs), OP_PRINT)
            ELSE LET funcIndex == FindFunction(cs.symtab, node.function_name) IN
                 IF funcIndex = -1
                 THEN Report(cs, "undefined function")
                 ELSE LET c1 == compile_arguments(node.arguments,
                                                  Len(node.arguments), -1, cs)
                      IN emit_bytes(c1, <<OP_CALL, funcIndex, Len(node.arguments)>>)
      [] node.type = "AST_OBJECT_LITERAL" ->
            compile_properties(node, 1,
                compile_mixins(node, 1, emit_byte(cs, OP_NEW_OBJECT)))
      [] node.type = "AST_PROPERTY_ACCESS" ->
            emit_byte(emit_constant(compile_expression(node.object, cs),
                                    StringValue(node.property)),
                      OP_GET_PROPERTY)
      [] node.type = "AST_PROPERTY_ASSIGNMENT" ->
            LET c1 == emit_constant(compile_expression(node.object, cs),
                                    StringValue(node.property))
            IN emit_byte(compile_expression(node.value, c1), OP_SET_PROPERTY)
      [] OTHER -> Report(cs, "unexpected node in expression")

\* compile_node on statements[lo], ..., statements[hi] in this order, each
\* from the state the one before left.  The range is halved so that long
\* blocks evaluate in logarithmic depth.
compile_range(statements, lo, hi, cs) ==
    IF lo > hi THEN cs
    ELSE IF lo = hi THEN compile_node(statements[lo], cs)
    ELSE LET mid == (lo + hi) \div 2 IN
         Then(compile_range(statements, lo, mid, cs),
              LAMBDA c : compile_range(statements, mid + 1, hi, c))

\* `for (i = 0; i < statement_count; i++) compile_node(statements[i], ...)`
compile_block(statements, i, cs) ==
    compile_range(statements, i, Len(statements), cs)

compile_statement(node, cs) ==
    CASE node.type = "AST_VARIABLE_DECL" ->
            LET c1 == IF node.initial_value.type # "NULL"
                      THEN compile_expression(node.initial_value, cs)
                      ELSE emit_constant(cs, NullValue)
                r == symbol_table_get_or_add_variable(c1.symtab,
                            node.variable_name, node.is_mutable)
            IN IF r.index = -1
               THEN Report(c1, "redeclaration")
               ELSE emit_var_op([c1 EXCEPT !.symtab = r.table], OP_STORE_VAR,
                                r.index)
      [] node.type \in {"AST_ASSIGNMENT", "AST_BINARY_OP", "AST_FUNCTION_CALL",
                        "AST_LITERAL", "AST_VARIABLE", "AST_OBJECT_LITERAL",
                        "AST_PROPERTY_ACCESS", "AST_PROPERTY_ASSIGNMENT"} ->
            emit_byte(compile_expression(node, cs), OP_POP)
      [] node.type = "AST_IF_STATEMENT" ->
            LET c1 == emit_jump(compile_expression(node.condition, cs),
                                OP_JUMP_IF_FALSE)
                elseJump == JumpSite(c1)
                c2 == emit_jump(compile_node(node.body, c1), OP_JUMP)
                endJump == JumpSite(c2)
                c3 == patch_jump(c2, elseJump)
                c4 == IF node.else_body.type # "NULL"
                      THEN compile_node(node.else_body, c3) ELSE c3
            IN patch_jump(c4, endJump)
      [] node.type = "AST_WHILE_LOOP" ->
            LET loopStart == Len(cs.chunk.code)
                c1 == emit_jump(compile_expression(node.condition, cs),
                                OP_JUMP_IF_FALSE)
                loopEndJump == JumpSite(c1)
                c3 == emit_loop(compile_node(node.body, c1), loopStart)
            IN patch_jump(c3, loopEndJump)
      [] node.type = "AST_IMPORT" ->
            IF IsLocalFile(node.import_path)
            THEN IF node.import_path \notin LocalFiles
                 THEN Report(cs, "could not open local import file")
                 ELSE StripTrailingEof(
                          emit_byte(compile_node(
                              ImportedScript(node.import_path), cs), OP_EOF))
            ELSE IF node.import_path \notin InstalledPackages
                 THEN Report(cs, "module not installed")
                 ELSE cs
      [] node.type = "AST_BLOCK" -> compile_block(node.statements, 1, cs)
      [] OTHER -> Report(cs, "unexpected node in statement")

compile_node(node, cs) ==
    IF node.type = "NULL" THEN cs
    ELSE IF node.type \in {"AST_VARIABLE_DECL", "AST_ASSIGNMENT",
                           "AST_FUNCTION_CALL", "AST_IF_STATEMENT",
                           "AST_WHILE_LOOP", "AST_FUNCTION_DEF",
                           "AST_BLOCK", "AST_BINARY_OP",
                           "AST_LITERAL", "AST_VARIABLE", "AST_IMPORT",
                           "AST_OBJECT_LITERAL", "AST_PROPERTY_ACCESS",
                           "AST_PROPERTY_ASSIGNMENT"}
         THEN compile_statement(node, cs)
         ELSE Report(cs, "unrecognized AST type")

\* A fresh chunk (vm_create_chunk) and symbol table (symbol_table_create).
EmptyCompileState ==
    [chunk |-> [code |-> <<>>, constants |-> <<>>], symtab |-> <<>>,
     diagnostics |-> <<>>]

\* compile_ast: compile the root, emit OP_EOF, return true.
compile_ast(root, cs) ==
    [state |-> emit_byte(compile_node(root, cs), OP_EOF), ok |-> TRUE]


----------------------------------------------------------------------------
(* The virtual machine (virtual_machine.c).  vm.ip is the offset of the    *)
(* next byte in chunk.code; vm.stack holds the live slots, bottom first,   *)
(* and vm.stack_top is the distance of stack_top from the stack's base.    *)

\* vm_push without its capacity test.
vm_push_unchecked(v, value) ==
    IF v.exited THEN v
    ELSE [v EXCEPT !.stack = Append(@, runtime_value_copy(value)),
                   !.stack_top = @ + 1]

\* vm_push: overflow prints and calls exit(1); else a deep copy is stored.
\* Nothing runs in a process that has exited.
vm_push(v, value) ==
    IF v.exited THEN v
    ELSE IF v.stack_top >= STACK_CAPACITY
         THEN [v EXCEPT !.stderr = Append(@, "VM Error: Stack overflow"),
                        !.exited = TRUE]
         ELSE [v EXCEPT !.stack = Append(@, runtime_value_copy(value)),
                        !.stack_top = @ + 1]

\* vm_pop: on an empty stack it prints and returns a null value to its
\* caller; else it moves stack_top down and returns the slot.
vm_pop(v) ==
    IF v.stack_top <= 0
    THEN [vm |-> [v EXCEPT !.stderr = Append(@, "VM Error: Stack underflow.")],
          value |-> NullValue]
    ELSE [vm |-> [v EXCEPT !.stack = SubSeq(@, 1, v.stack_top - 1),
                           !.stack_top = @ - 1],
          value |-> v.stack[v.stack_top]]

vm_peek(v, distance) ==
    IF v.stack_top - distance - 1 < 0
    THEN [vm |-> [v EXCEPT !.stderr =
                        Append(@, "VM Error: Stack underflow in peek.")],
          value |-> NullValue]
    ELSE [vm |-> v, value |-> v.stack[v.stack_top - distance]]

\* runtime_value_to_string on the values of the model: numbers with "%.2f".
RECURSIVE runtime_value_to_string(_)
RECURSIVE ObjectString(_, _)
ObjectString(obj, i) ==
    IF i > obj.count THEN ""
    ELSE (IF i = 1 THEN "" ELSE ", ") \o obj.keys[i] \o ": "
         \o runtime_value_to_string(obj.values[i]) \o ObjectString(obj, i + 1)

runtime_value_to_string(value) ==
    CASE value.type = "NUMBER" -> ToString(value.number_value) \o ".00"
      [] value.type = "STRING" -> value.string_value
      [] value.type = "BOOLEAN" ->
            IF value.boolean_value THEN "true" ELSE "false"
      [] value.type = "NULL" -> "null"
      [] OTHER -> "{" \o ObjectString(value, 1) \o "}"

\* What OP_PRINT writes: numbers with "%g".
PrintedLine(v) ==
    CASE v.type = "NUMBER" -> ToString(v.number_value)
      [] v.type = "STRING" -> v.string_value
      [] v.type = "BOOLEAN" -> IF v.boolean_value THEN "true" ELSE "false"
      [] v.type = "NULL" -> "null"
      [] OTHER -> "[Object or Array]"

code_count == Len(chunk.code)

\* The byte at offset i of the code.
CodeAt(i) == chunk.code[i + 1]

\* The fetch `instruction = *vm->ip++` reads inside the code.
Fetches(op) ==
    /\ pc = "running"
    /\ vm.ip >= 0 /\ vm.ip < code_count
    /\ CodeAt(vm.ip) = op

\* (uint16_t)(((*vm->ip++) << 8) | (*vm->ip++)) for the two bytes after the
\* opcode: the two reads are unsequenced, so the build decides which of
\* them reads the first byte.
ReadU16 ==
    IF operand_order = "left_first"
    THEN CodeAt(vm.ip + 1) * 256 + CodeAt(vm.ip + 2)
    ELSE CodeAt(vm.ip + 2) * 256 + CodeAt(vm.ip + 1)

\* The operand bytes of the instruction at vm.ip lie inside the code.
HasOperands(n) == vm.ip + n < code_count

\* The instruction ends with `break`: vm_run goes on to the next fetch,
\* unless a vm_push has ended the process.
Break(v, ip) ==
    /\ vm' = IF v.exited THEN v ELSE [v EXCEPT !.ip = ip]
    /\ pc' = IF v.exited THEN "exited" ELSE "running"
    /\ UNCHANGED result

\* `return status;` out of vm_run, with the message printed before it.
Return(v, status, message) ==
    /\ vm' = IF v.exited \/ message = "" THEN v
             ELSE [v EXCEPT !.stderr = Append(@, message)]
    /\ pc' = IF v.exited THEN "exited" ELSE "returned"
    /\ result' = IF v.exited THEN result ELSE status

\* The instruction reads or writes outside an array: anything may follow.
Undefined ==
    /\ pc' = "undefined"
    /\ UNCHANGED <<vm, result>>

CompileVars == <<operand_order, ast, chunk, symtab, diagnostics, compile_ok>>
IdleVars == <<lexer, tokens, jchunk, jsites, file, heap, parser, other_vm>>

OpEof ==
    /\ Fetches(OP_EOF)
    /\ Return([vm EXCEPT !.ip = vm.ip + 1], 0, "")
    /\ UNCHANGED <<CompileVars, IdleVars, g_globals, output>>

OpPop ==
    /\ Fetches(OP_POP)
    /\ IF vm.stack_top <= 0
       THEN Break(vm, vm.ip + 1)
       ELSE Break(vm_pop(vm).vm, vm.ip + 1)
    /\ UNCHANGED <<CompileVars, IdleVars, g_globals, output>>

OpDup ==
    /\ Fetches(OP_DUP)
    /\ LET p == vm_peek(vm, 0) IN Break(vm_push(p.vm, p.value), vm.ip + 1)
    /\ UNCHANGED <<CompileVars, IdleVars, g_globals, output>>

OpSwap ==
    /\ Fetches(OP_SWAP)
    /\ IF vm.stack_top < 2
       THEN Return(vm, 1, "VM Error: Stack underflow during OP_SWAP")
       ELSE LET a == vm_pop(vm)
                b == vm_pop(a.vm)
            IN Break(vm_push(vm_push(b.vm, a.value), b.value), vm.ip + 1)
    /\ UNCHANGED <<CompileVars, IdleVars, g_globals, output>>

OpLoadConst ==
    /\ Fetches(OP_LOAD_CONST)
    /\ IF ~HasOperands(1) \/ CodeAt(vm.ip + 1) >= Len(chunk.constants)
       THEN Undefined
       ELSE Break(vm_push(vm, chunk.constants[CodeAt(vm.ip + 1) + 1]), vm.ip + 2)
    /\ UNCHANGED <<CompileVars, IdleVars, g_globals, output>>

OpLoadVar ==
    /\ Fetches(OP_LOAD_VAR)
    /\ IF ~HasOperands(2) \/ ReadU16 >= GLOBALS_SIZE
       THEN Undefined
       ELSE Break(vm_push(vm, runtime_value_copy(g_globals[ReadU16])), vm.ip + 3)
    /\ UNCHANGED <<CompileVars, IdleVars, g_globals, output>>

OpStoreVar ==
    /\ Fetches(OP_STORE_VAR)
    /\ IF ~HasOperands(2) \/ ReadU16 >= GLOBALS_SIZE
       THEN Undefined /\ UNCHANGED g_globals
       ELSE LET p == vm_pop(vm) IN
            /\ g_globals' = [g_globals EXCEPT
                                ![ReadU16] = runtime_value_copy(p.value)]
            /\ Break(p.vm, vm.ip + 3)
    /\ UNCHANGED <<CompileVars, IdleVars, output>>

\* The two pops `b = vm_pop(vm); a = vm_pop(vm)` of the binary operators.
PopTwo(v) ==
    LET pb == vm_pop(v)
        pa == vm_pop(pb.vm)
    IN [vm |-> pa.vm, a |-> pa.value, b |-> pb.value]

OpAdd ==
    /\ Fetches(OP_ADD)
    /\ LET p == PopTwo(vm) IN
       IF p.a.type = "STRING" /\ p.b.type = "STRING"
       THEN Break(vm_push(p.vm, StringValue(p.a.string_value \o p.b.string_value)),
                  vm.ip + 1)
       ELSE IF p.a.type = "STRING"
       THEN Break(vm_push(p.vm, StringValue(p.a.string_value
                                    \o runtime_value_to_string(p.b))), vm.ip + 1)
       ELSE IF p.b.type = "STRING"
       THEN Break(vm_push(p.vm, StringValue(runtime_value_to_string(p.a)
                                    \o p.b.string_value)), vm.ip + 1)
       ELSE IF p.a.type = "NUMBER" /\ p.b.type = "NUMBER"
       THEN Break(vm_push(p.vm, NumberValue(p.a.number_value + p.b.number_value)),
                  vm.ip + 1)
       ELSE Return(p.vm, 1, "VM Error: OP_ADD cannot handle these operand types.")
    /\ UNCHANGED <<CompileVars, IdleVars, g_globals, output>>

\* OP_SUB and OP_MUL: two numbers, else an error.
OpArithmetic ==
    /\ \E op \in {OP_SUB, OP_MUL} :
        /\ Fetches(op)
        /\ LET p == PopTwo(vm) IN
           IF p.a.type = "NUMBER" /\ p.b.type = "NUMBER"
           THEN Break(vm_push(p.vm, NumberValue(
                        IF op = OP_SUB THEN p.a.number_value - p.b.number_value
                        ELSE p.a.number_value * p.b.number_value)), vm.ip + 1)
           ELSE Return(p.vm, 1, "VM Error: expects two numbers.")
    /\ UNCHANGED <<CompileVars, IdleVars, g_globals, output>>

\* The comparison OP_EQ .. OP_GTE computes for operands a and b.
Comparison(op, a, b) ==
    IF a.type = "NUMBER" /\ b.type = "NUMBER"
    THEN CASE op = OP_EQ -> a.number_value = b.number_value
           [] op = OP_NEQ -> a.number_value # b.number_value
           [] op = OP_LT -> a.number_value < b.number_value
           [] op = OP_GT -> a.number_value > b.number_value
           [] op = OP_LTE -> a.number_value <= b.number_value
           [] OTHER -> a.number_value >= b.number_value
    ELSE IF op \in {OP_EQ, OP_NEQ}
         THEN LET equal ==
                    /\ a.type = b.type
                    /\ CASE a.type = "BOOLEAN" -> a.boolean_value = b.boolean_value
                         [] a.type = "STRING" -> a.string_value = b.string_value
                         [] a.type = "NULL" -> TRUE
                         [] OTHER -> FALSE
              IN IF op = OP_NEQ THEN ~equal ELSE equal
         ELSE FALSE

OpCompare ==
    /\ \E op \in {OP_EQ, OP_NEQ, OP_LT, OP_GT, OP_LTE, OP_GTE} :
        /\ Fetches(op)
        /\ LET p == PopTwo(vm) IN
           Break(vm_push(p.vm, BooleanValue(Comparison(op, p.a, p.b))), vm.ip + 1)
    /\ UNCHANGED <<CompileVars, IdleVars, g_globals, output>>

\* The test of OP_JUMP_IF_FALSE: boolean false, the number 0, and null.
IsFalse(cond) ==
    CASE cond.type = "BOOLEAN" -> cond.boolean_value = FALSE
      [] cond.type = "NUMBER" -> cond.number_value = 0
      [] cond.type = "NULL" -> TRUE
      [] OTHER -> FALSE

OpJumpIfFalse ==
    /\ Fetches(OP_JUMP_IF_FALSE)
    /\ IF ~HasOperands(2) THEN Undefined
       ELSE LET p == vm_pop(vm) IN
            Break(p.vm, IF IsFalse(p.value) THEN vm.ip + 3 + ReadU16
                        ELSE vm.ip + 3)
    /\ UNCHANGED <<CompileVars, IdleVars, g_globals, output>>

OpJump ==
    /\ Fetches(OP_JUMP)
    /\ IF ~HasOperands(2) THEN Undefined
       ELSE Break(vm, vm.ip + 3 + ReadU16)
    /\ UNCHANGED <<CompileVars, IdleVars, g_globals, output>>

OpLoop ==
    /\ Fetches(OP_LOOP)
    /\ IF ~HasOperands(2) THEN Undefined
       ELSE Break(vm, vm.ip + 3 - ReadU16)
    /\ UNCHANGED <<CompileVars, IdleVars, g_globals, output>>

OpPrint ==
    /\ Fetches(OP_PRINT)
    /\ LET p == vm_pop(vm) IN
       /\ output' = Append(output, PrintedLine(p.value))
       /\ Break(vm_push(p.vm, NullValue), vm.ip + 1)
    /\ UNCHANGED <<CompileVars, IdleVars, g_globals>>

OpNewObject ==
    /\ Fetches(OP_NEW_OBJECT)
    /\ Break(vm_push(vm, EmptyObject), vm.ip + 1)
    /\ UNCHANGED <<CompileVars, IdleVars, g_globals, output>>

OpGetProperty ==
    /\ Fetches(OP_GET_PROPERTY)
    /\ LET pn == vm_pop(vm)
           po == vm_pop(pn.vm)
           propNameVal == pn.value
           objVal == po.value
           i == FindKey(objVal, propNameVal.string_value)
       IN IF objVal.type # "OBJECT"
          THEN Return(po.vm, 1, "VM Error: OP_GET_PROPERTY on non-object.")
          ELSE IF propNameVal.type # "STRING"
          THEN Return(po.vm, 1,
                      "VM Error: OP_GET_PROPERTY requires string property name.")
          ELSE IF i > 0
          THEN Break(vm_push(po.vm, runtime_value_copy(objVal.values[i])),
                     vm.ip + 1)
          ELSE Break(vm_push([po.vm EXCEPT !.stderr =
                                  Append(@, "VM Warning: Object has no property.")],
                             NullValue), vm.ip + 1)
    /\ UNCHANGED <<CompileVars, IdleVars, g_globals, output>>

\* The slot OP_SET_PROPERTY and OP_SET_NESTED_PROPERTY write back to: the
\* first global that holds an object with as many properties as the operand
\* object had; -1 when there is none.
MatchingGlobal(count) ==
    IF \E i \in 0..(GLOBALS_SIZE - 1) :
            g_globals[i].type = "OBJECT" /\ g_globals[i].count = count
    THEN CHOOSE i \in 0..(GLOBALS_SIZE - 1) :
            /\ g_globals[i].type = "OBJECT" /\ g_globals[i].count = count
            /\ \A j \in 0..(i - 1) :
                  ~(g_globals[j].type = "OBJECT" /\ g_globals[j].count = count)
    ELSE -1

OpSetProperty ==
    /\ Fetches(OP_SET_PROPERTY)
    /\ IF vm.stack_top < 3
       THEN /\ Return(vm, 1, "VM Error: Stack underflow for OP_SET_PROPERTY")
            /\ UNCHANGED g_globals
       ELSE LET pv == vm_pop(vm)
                pn == vm_pop(pv.vm)
                po == vm_pop(pn.vm)
                value == pv.value
                propName == pn.value
                object == po.value
                objectCopy == vm_add_property(runtime_value_copy(object),
                                              propName.string_value, value)
                slot == MatchingGlobal(object.count)
            IN IF propName.type # "STRING"
               THEN /\ Return(po.vm, 1,
                              "VM Error: Property name must be a valid string.")
                    /\ UNCHANGED g_globals
               ELSE IF object.type # "OBJECT"
               THEN /\ Return(po.vm, 1,
                              "VM Error: Cannot add property to non-object.")
                    /\ UNCHANGED g_globals
               ELSE /\ g_globals' =
                          IF slot >= 0
                          THEN [g_globals EXCEPT
                                    ![slot] = runtime_value_copy(objectCopy)]
                          ELSE g_globals
                    /\ Break(vm_push(po.vm, objectCopy), vm.ip + 1)
    /\ UNCHANGED <<CompileVars, IdleVars, output>>

\* The loop of OP_COPY_PROPERTIES: vm_add_property of each source property,
\* from index i on, into target.
RECURSIVE CopyProperties(_, _, _)
CopyProperties(target, source, i) ==
    IF i > source.count THEN target
    ELSE CopyProperties(vm_add_property(target, source.keys[i], source.values[i]),
                        source, i + 1)

OpCopyProperties ==
    /\ Fetches(OP_COPY_PROPERTIES)
    /\ IF vm.stack_top < 2
       THEN Return(vm, 1, "VM Error: Stack underflow for OP_COPY_PROPERTIES")
       ELSE LET ps == vm_pop(vm)
                source == ps.value
                target == ps.vm.stack[ps.vm.stack_top]
            IN IF source.type # "OBJECT"
               THEN Return(ps.vm, 1,
                      "VM Error: Source for OP_COPY_PROPERTIES must be an object")
               ELSE IF target.type # "OBJECT"
               THEN Return(ps.vm, 1,
                      "VM Error: Target for OP_COPY_PROPERTIES must be an object")
               ELSE Break([ps.vm EXCEPT !.stack[ps.vm.stack_top] =
                                CopyProperties(target, source, 1)], vm.ip + 1)
    /\ UNCHANGED <<CompileVars, IdleVars, g_globals, output>>

\* The opcodes of enum OpCode, and the byte values above it, for which the
\* switch of vm_run has no case.
NoCaseOpcodes == {8, 9, 10, 11, OP_AND, OP_OR, 29, 37} \cup (45..255)

OpUnknown ==
    /\ \E op \in NoCaseOpcodes : Fetches(op)
    /\ Return([vm EXCEPT !.ip = vm.ip + 1], 1, "VM Error: Unknown opcode.")
    /\ UNCHANGED <<CompileVars, IdleVars, g_globals, output>>

\* The fetch with vm->ip at or past the end of the code: the byte is read
\* outside the code, and the bounds check after it returns 1.  With vm->ip
\* before the start of the code there is no check.
FetchOutOfBounds ==
    /\ pc = "running"
    /\ \/ /\ vm.ip >= code_count
          /\ \/ Return([vm EXCEPT !.ip = vm.ip + 1], 1,
                       "VM Error: Instruction pointer out of bounds.")
             \/ Undefined
       \/ /\ vm.ip < 0
          /\ Undefined
    /\ UNCHANGED <<CompileVars, IdleVars, g_globals, output>>

----------------------------------------------------------------------------
(* The programs the pipeline is run on: the ASTs parse_script builds for   *)
(* a few declarations followed by the statements under study.              *)

Num(lexeme) == Literal("TOKEN_NUMBER", lexeme)
Str(lexeme) == Literal("TOKEN_STRING", lexeme)
Bool(lexeme) == Literal("TOKEN_BOOLEAN", lexeme)
PrintCall(arguments) == FunctionCall("print", arguments)

SetupPool == <<
    VariableDecl("x", Num("1"), TRUE),                       \* var x: 1
    VariableDecl("k", Num("2"), FALSE),                      \* let k: 2
    VariableDecl("a", ObjectLiteral(<<>>, <<>>, <<>>), TRUE),           \* a: {}
    VariableDecl("b", ObjectLiteral(<<>>, <<"p">>, <<Num("1")>>), TRUE), \* b: {p: 1}
    VariableDecl("obj", ObjectLiteral(<<>>, <<"a">>,         \* obj: {a: {b: 1}}
        <<ObjectLiteral(<<>>, <<"b">>, <<Num("1")>>)>>), TRUE) >>

TestPool == <<
    \* x = 2 ; print(x)
    <<Assignment("x", Num("2")), PrintCall(<<Variable("x")>>)>>,
    \* k = 3 ; print(k)
    <<Assignment("k", Num("3")), PrintCall(<<Variable("k")>>)>>,
    \* print(1, 2)
    <<PrintCall(<<Num("1"), Num("2")>>)>>,
    \* print()
    <<PrintCall(<<>>)>>,
    \* c: {:[a], q: 2} ; print(c.q)
    <<VariableDecl("c", ObjectLiteral(<<"a">>, <<"q">>, <<Num("2")>>), TRUE),
      PrintCall(<<PropertyAccess(Variable("c"), "q")>>)>>,
    \* c: {:[b], p: 2} ; print(c.p)
    <<VariableDecl("c", ObjectLiteral(<<"b">>, <<"p">>, <<Num("2")>>), TRUE),
      PrintCall(<<PropertyAccess(Variable("c"), "p")>>)>>,
    \* c: {:[b]} ; print(c.p)
    <<VariableDecl("c", ObjectLiteral(<<"b">>, <<>>, <<>>), TRUE),
      PrintCall(<<PropertyAccess(Variable("c"), "p")>>)>>,
    \* b.p = 2 ; print(b.p)
    <<PropertyAssignment(Variable("b"), "p", Num("2")),
      PrintCall(<<PropertyAccess(Variable("b"), "p")>>)>>,
    \* obj.a.b = 42 ; print(obj.a.b)
    <<PropertyAssignment(PropertyAccess(Variable("obj"), "a"), "b", Num("42")),
      PrintCall(<<PropertyAccess(PropertyAccess(Variable("obj"), "a"), "b")>>)>>,
    \* f(1)
    <<FunctionCall("f", <<Num("1")>>)>>,
    \* f: fn(n) { print(n) } ; f(1)
    <<FunctionDef("f", <<"n">>, Block(<<PrintCall(<<Variable("n")>>)>>)),
      FunctionCall("f", <<Num("1")>>)>>,
    \* print(x % 2)
    <<PrintCall(<<BinaryOp(Variable("x"), "%", Num("2"))>>)>>,
    \* import ember/gfx
    <<Import("ember/gfx")>>,
    \* import ember/net
    <<Import("ember/net")>>,
    \* import "lib.ember" followed by print(2)
    <<Import("lib.ember"), PrintCall(<<Num("2")>>)>>,
    \* import "gone.ember" followed by print(2)
    <<Import("gone.ember"), PrintCall(<<Num("2")>>)>>,
    \* if (x == 1) print(x) else print(k)
    <<IfStatement(BinaryOp(Variable("x"), "==", Num("1")),
                  Block(<<PrintCall(<<Variable("x")>>)>>),
                  Block(<<PrintCall(<<Variable("k")>>)>>))>>,
    \* x && k
    <<BinaryOp(Variable("x"), "&&", Variable("k"))>>,
    \* false && print(1)
    <<BinaryOp(Bool("false"), "&&", PrintCall(<<Num("1")>>))>>,
    \* true || print(1)
    <<BinaryOp(Bool("true"), "||", PrintCall(<<Num("1")>>))>>,
    \* print("s" + x)
    <<PrintCall(<<BinaryOp(Str("s"), "+", Variable("x"))>>)>>,
    \* print("n=" + 3)
    <<PrintCall(<<BinaryOp(Str("n="), "+", Num("3"))>>)>>,
    \* print(x - 1 * 2)
    <<PrintCall(<<BinaryOp(Variable("x"), "-",
                           BinaryOp(Num("1"), "*", Num("2")))>>)>> >>

\* Whole programs with a while loop.
LoopPool == <<
    \* while (true) print(1, 2)
    <<WhileLoop(Bool("true"), Block(<<PrintCall(<<Num("1"), Num("2")>>)>>))>>,
    \* var x: 1 ; while (x < 3) x = x + 1 ; print(x)
    <<VariableDecl("x", Num("1"), TRUE),
      WhileLoop(BinaryOp(Variable("x"), "<", Num("3")),
                Block(<<Assignment("x", BinaryOp(Variable("x"), "+", Num("1")))>>)),
      PrintCall(<<Variable("x")>>)>> >>

\* The choices of at most MaxSetup declarations, as indices into SetupPool.
SetupChoices == UNION {[1..n -> 1..Len(SetupPool)] : n \in 0..MaxSetup}

Program(setup, test) ==
    [i \in 1..Len(setup) |-> SetupPool[setup[i]]] \o TestPool[test]

----------------------------------------------------------------------------
(* The exec pipeline of main.c                                             *)

NewVM == [ip |-> 0, stack |-> <<>>, stack_top |-> 0, stderr |-> <<>>,
          exited |-> FALSE]

ZeroGlobals == [i \in 0..(GLOBALS_SIZE - 1) |-> NullValue]

IdleInit ==
    /\ lexer = [source |-> <<>>, position |-> 0, at_line_start |-> TRUE,
                indent_stack |-> <<0>>, pending_dedents |-> FALSE,
                dedent_count |-> 0]
    /\ tokens = <<>>
    /\ jchunk = <<>>
    /\ jsites = <<>>
    /\ file = <<>>
    /\ other_vm = <<>>
    /\ heap = <<>>
    /\ parser = <<>>

Init ==
    /\ pc = "source"
    /\ operand_order \in {"left_first", "right_first"}
    /\ \/ \E setup \in SetupChoices, test \in 1..Len(TestPool) :
             ast = Program(setup, test)
       \/ \E l \in 1..Len(LoopPool) : ast = LoopPool[l]
    /\ chunk = EmptyCompileState.chunk
    /\ symtab = EmptyCompileState.symtab
    /\ diagnostics = <<>>
    /\ compile_ok = FALSE
    /\ vm = NewVM
    /\ g_globals = ZeroGlobals
    /\ result = -1
    /\ output = <<>>
    /\ IdleInit

\* compile_ember_source, after parse_script: compile_ast into a fresh chunk
\* and symbol table; a false return ends the driver before any VM exists.
CompileEmberSource ==
    /\ pc = "source"
    /\ LET r == compile_ast(Block(ast), EmptyCompileState) IN
       /\ chunk' = r.state.chunk
       /\ symtab' = r.state.symtab
       /\ diagnostics' = r.state.diagnostics
       /\ compile_ok' = r.ok
       /\ pc' = IF r.ok THEN "compiled" ELSE "failed"
    /\ UNCHANGED <<operand_order, ast, vm, g_globals, result, output, IdleVars>>

VmCreate ==
    /\ pc = "compiled"
    /\ vm' = NewVM
    /\ pc' = "created"
    /\ UNCHANGED <<CompileVars, IdleVars, g_globals, result, output>>

\* The entry of vm_run: every global is reset to null.
VmRunEnter ==
    /\ pc = "created"
    /\ g_globals' = ZeroGlobals
    /\ pc' = "running"
    /\ UNCHANGED <<CompileVars, IdleVars, vm, result, output>>

Next ==
    \/ CompileEmberSource
    \/ VmCreate
    \/ VmRunEnter
    \/ OpEof
    \/ OpPop
    \/ OpDup
    \/ OpSwap
    \/ OpLoadConst
    \/ OpLoadVar
    \/ OpStoreVar
    \/ OpAdd
    \/ OpArithmetic
    \/ OpCompare
    \/ OpJumpIfFalse
    \/ OpJump
    \/ OpLoop
    \/ OpPrint
    \/ OpNewObject
    \/ OpGetProperty
    \/ OpSetProperty
    \/ OpCopyProperties
    \/ OpUnknown
    \/ FetchOutOfBounds

Spec == Init /\ [][Next]_vars

----------------------------------------------------------------------------
(* Properties of the exec pipeline (specification Spec)                    *)

\* The code offset at which the first i top-level statements end.
CodeEndOf(i) ==
    Len(compile_block(SubSeq(ast, 1, i), 1, EmptyCompileState).chunk.code)

\* The top-level statement whose code holds offset ip; 0 for the final OP_EOF.
StatementAt(ip) ==
    IF \E i \in 1..Len(ast) : CodeEndOf(i - 1) <= ip /\ ip < CodeEndOf(i)
    THEN CHOOSE i \in 1..Len(ast) : CodeEndOf(i - 1) <= ip /\ ip < CodeEndOf(i)
    ELSE 0

\* vm_run is about to fetch the first instruction after a top-level statement.
AtStatementEnd ==
    /\ pc = "running"
    /\ \E i \in 1..Len(ast) : vm.ip = CodeEndOf(i)

\* C1: in a program the compiler accepts without a diagnostic, the operand
\* stack is empty again whenever execution reaches the end of a top-level
\* statement; so each statement, started on an empty stack, ends on one.
C1_StatementsLeaveStackEmpty ==
    (AtStatementEnd /\ diagnostics = <<>>) => vm.stack_top = 0

\* C2: after every instruction of vm_run the stack pointer lies between the
\* base of the stack and its capacity, and the live slots are exactly those
\* below it.
C2_StackPointerInBounds ==
    /\ 0 <= vm.stack_top
    /\ vm.stack_top <= STACK_CAPACITY
    /\ Len(vm.stack) = vm.stack_top

\* A push met the full stack: the process exited with all 256 slots in use.
C2_Witness_PushOnFullStack ==
    /\ pc = "exited"
    /\ vm.stack_top = STACK_CAPACITY

\* The operands the case of opcode op takes off the stack (vm_pop, vm_peek
\* or a depth test), for the opcodes the compiler emits.
OperandsNeeded(op) ==
    CASE op \in {OP_POP, OP_DUP, OP_STORE_VAR, OP_JUMP_IF_FALSE, OP_PRINT} -> 1
      [] op \in {OP_SWAP, OP_ADD, OP_SUB, OP_MUL, OP_EQ, OP_NEQ, OP_LT, OP_GT,
                 OP_LTE, OP_GTE, OP_GET_PROPERTY, OP_COPY_PROPERTIES} -> 2
      [] op = OP_SET_PROPERTY -> 3
      [] OTHER -> 0

\* The instruction vm_run is about to execute needs more operands than the
\* stack holds.
Underflows ==
    /\ pc = "running"
    /\ vm.ip >= 0 /\ vm.ip < code_count
    /\ OperandsNeeded(CodeAt(vm.ip)) > vm.stack_top

\* C3: an instruction that needs more operands than the stack holds reports
\* the underflow and ends the run with a non-zero status; vm_run never goes
\* on to the next instruction.
C3_UnderflowEndsRun ==
    [][(Underflows /\ pc' # "undefined") =>
            /\ pc' = "returned"
            /\ result' \notin {-1, 0}
            /\ Len(vm'.stderr) > Len(vm.stderr)]_vars

\* The variable at the root of a property chain x.p1.....pn.
RECURSIVE RootVariable(_)
RootVariable(node) ==
    IF node.type = "AST_PROPERTY_ACCESS" THEN RootVariable(node.object)
    ELSE IF node.type = "AST_VARIABLE" THEN node.variable_name
    ELSE ""

\* The global slot of the variable x when the statement holding offset ip
\* is a property assignment x.p1.....pn = v; -1 for every other statement.
AssignedSlot(ip) ==
    LET i == StatementAt(ip) IN
    IF i > 0 /\ ast[i].type = "AST_PROPERTY_ASSIGNMENT"
       /\ FindSymbol(symtab, RootVariable(ast[i].object)) > 0
    THEN symtab[FindSymbol(symtab, RootVariable(ast[i].object))].index
    ELSE -1

\* C6: a set-property instruction, whether it builds an object literal or
\* carries out x.p = v, leaves every global other than x as it was.
C6_SetPropertyLeavesOtherGlobals ==
    [][Fetches(OP_SET_PROPERTY) =>
            \A i \in 0..(GLOBALS_SIZE - 1) :
                i # AssignedSlot(vm.ip) => g_globals'[i] = g_globals[i]]_vars

\* The program ends with x.p1.....pn = v ; print(x.p1.....pn), and x was
\* first declared with an object literal.
EndsWithReadBack ==
    LET n == Len(ast) IN
    /\ n >= 3
    /\ ast[n - 1].type = "AST_PROPERTY_ASSIGNMENT"
    /\ ast[n - 1].value.type = "AST_LITERAL"
    /\ ast[n].type = "AST_FUNCTION_CALL"
    /\ ast[n].function_name = "print"
    /\ Len(ast[n].arguments) = 1
    /\ ast[n].arguments[1].type = "AST_PROPERTY_ACCESS"
    /\ ast[n].arguments[1].property = ast[n - 1].property
    /\ ast[n].arguments[1].object = ast[n - 1].object
    /\ \E i \in 1..(n - 2) :
          /\ ast[i].type = "AST_VARIABLE_DECL"
          /\ ast[i].variable_name = RootVariable(ast[n - 1].object)
          /\ ast[i].initial_value.type = "AST_OBJECT_LITERAL"
          /\ \A j \in 1..(i - 1) :
                ast[j].variable_name # RootVariable(ast[n - 1].object)

\* C7: when a program that ends with x.p1.....pn = v ; print(x.p1.....pn)
\* has run, the run succeeded and the last line printed is v.
C7_AssignedPropertyReadsBack ==
    (EndsWithReadBack /\ pc = "returned") =>
        /\ result = 0
        /\ output # <<>>
        /\ output[Len(output)] = PrintedLine(LiteralValue(ast[Len(ast) - 1].value))

\* The program assigns to a variable that a `let` declared before.
AssignsToLet ==
    \E i, j \in 1..Len(ast) :
        /\ i < j
        /\ ast[i].type = "AST_VARIABLE_DECL"
        /\ ~ast[i].is_mutable
        /\ \A h \in 1..(i - 1) :
              ast[h].type = "AST_VARIABLE_DECL"
                  => ast[h].variable_name # ast[i].variable_name
        /\ ast[j].type = "AST_ASSIGNMENT"
        /\ ast[j].variable = ast[i].variable_name

\* C8: once a program that assigns to a `let` variable has been compiled,
\* compile_ast has returned false and the driver has stopped before any run.
C8_LetAssignmentFailsCompile ==
    (AssignsToLet /\ pc # "source") => (compile_ok = FALSE /\ pc = "failed")

\* The compiler printed one of the compile errors: undefined function,
\* redeclaration, unsupported operator, module not installed.
HasCompileError ==
    \E i \in 1..Len(diagnostics) :
        diagnostics[i] \in {"undefined function", "redeclaration",
                            "unsupported operator", "module not installed"}

\* C9: once a program with a compile error has been compiled, compile_ast
\* has returned false.
C9_CompileErrorFailsCompile ==
    (HasCompileError /\ pc # "source") => compile_ok = FALSE

----------------------------------------------------------------------------
(* The lexer (lexer.c).  lexer.source is the input text, one character per *)
(* element; the terminating NUL is the character read past its end.  The   *)
(* texts of the model are made of spaces, newlines, the letter a and `/`.  *)

NUL == "NUL"

MAX_INDENT_LEVELS == 64

\* lexer->current_char: source[position].
CurrentChar(lx) ==
    IF lx.position < Len(lx.source) THEN lx.source[lx.position + 1] ELSE NUL

lexer_init(source) ==
    [source |-> source, position |-> 0, at_line_start |-> TRUE,
     indent_stack |-> <<0>>, pending_dedents |-> FALSE, dedent_count |-> 0]

lexer_advance(lx) ==
    [lx EXCEPT !.at_line_start =
                    IF CurrentChar(lx) = "\n" THEN TRUE
                    ELSE IF CurrentChar(lx) \notin {" ", "\t"} THEN FALSE
                    ELSE @,
               !.position = @ + 1]

lexer_peek(lx) ==
    IF lx.position + 1 < Len(lx.source) THEN lx.source[lx.position + 2] ELSE NUL

\* The inner loop of the `//` case: advance to the newline or the end.
RECURSIVE SkipLineComment(_)
SkipLineComment(lx) ==
    IF CurrentChar(lx) # "\n" /\ CurrentChar(lx) # NUL
    THEN SkipLineComment(lexer_advance(lx))
    ELSE lx

RECURSIVE lexer_skip_whitespace_and_comments(_)
lexer_skip_whitespace_and_comments(lx) ==
    IF CurrentChar(lx) \in {" ", "\t", "\r"}
    THEN lexer_skip_whitespace_and_comments(lexer_advance(lx))
    ELSE IF CurrentChar(lx) = "/" /\ lexer_peek(lx) = "/"
    THEN lexer_skip_whitespace_and_comments(SkipLineComment(lx))
    ELSE lx

\* isalpha on the letters the texts use.
Letters == {"a", "d", "f", "i"}

\* lexer_read_identifier: advance over the letters of the identifier.
RECURSIVE lexer_read_identifier(_)
lexer_read_identifier(lx) ==
    IF CurrentChar(lx) \in Letters THEN lexer_read_identifier(lexer_advance(lx))
    ELSE lx

\* The copy lexer_read_identifier returns: the characters of the source
\* from offset `from` up to offset `to`.
RECURSIVE SourceText(_, _, _)
SourceText(source, from, to) ==
    IF from >= to THEN ""
    ELSE source[from + 1] \o SourceText(source, from + 1, to)

is_keyword(identifier) ==
    identifier \in {"if", "else", "while", "for", "return", "break",
                    "continue", "var", "const", "let", "true", "false",
                    "null", "import", "fn", "fire"}

\* The counting loop of lexer_calculate_indentation: a space counts 1, a
\* tab 4.
RECURSIVE CountIndentation(_, _)
CountIndentation(lx, indent_level) ==
    IF CurrentChar(lx) = " "
    THEN CountIndentation(lexer_advance(lx), indent_level + 1)
    ELSE IF CurrentChar(lx) = "\t"
    THEN CountIndentation(lexer_advance(lx), indent_level + 4)
    ELSE [lexer |-> lx, indent_level |-> indent_level]

\* The popping loop that pops nothing.
PopIndentsNone(indent_stack, indent_level) ==
    indent_stack

\* lexer_calculate_indentation: -1, with the position restored, for a line
\* that is empty, ends the text, or starts with a `//` comment.
lexer_calculate_indentation(lx) ==
    LET r == CountIndentation(lx, 0) IN
    IF \/ CurrentChar(r.lexer) \in {"\n", NUL}
       \/ (CurrentChar(r.lexer) = "/" /\ lexer_peek(r.lexer) = "/")
    THEN [lexer |-> lx, indent_level |-> -1]
    ELSE r

lexer_push_indent(lx, level) ==
    IF Len(lx.indent_stack) < MAX_INDENT_LEVELS
    THEN [lx EXCEPT !.indent_stack = Append(@, level)]
    ELSE lx

\* The loop of lexer_handle_indentation that pops the levels above
\* indent_level; the base level stays.
RECURSIVE PopIndents(_, _)
PopIndents(indent_stack, indent_level) ==
    IF Len(indent_stack) > 1 /\ indent_stack[Len(indent_stack)] > indent_level
    THEN PopIndents(SubSeq(indent_stack, 1, Len(indent_stack) - 1), indent_level)
    ELSE indent_stack

Token(lx, type) == [lexer |-> lx, type |-> type, value |-> ""]

ValuedToken(lx, type, value) == [lexer |-> lx, type |-> type, value |-> value]

\* The identifier case of lexer_next_token.
ReadIdentifier(lx) ==
    LET read == lexer_read_identifier(lx)
        identifier == SourceText(lx.source, lx.position, read.position)
    IN ValuedToken(read,
                   IF identifier \in {"true", "false"} THEN "TOKEN_BOOLEAN"
                   ELSE IF identifier = "null" THEN "TOKEN_NULL"
                   ELSE IF is_keyword(identifier) THEN "TOKEN_KEYWORD"
                   ELSE "TOKEN_IDENTIFIER",
                   identifier)

\* The loop of the string case of lexer_next_token, entered after the
\* opening quote: it ends at the closing quote or the end of the text (ok),
\* or at an escape other than \n, \t, \\ and \" (not ok).
RECURSIVE StringBody(_)
StringBody(lx) ==
    IF CurrentChar(lx) \in {"\"", NUL} THEN [lexer |-> lx, ok |-> TRUE]
    ELSE IF CurrentChar(lx) = "\\"
    THEN LET escaped == lexer_advance(lx) IN
         IF CurrentChar(escaped) \in {"n", "t", "\\", "\""}
         THEN StringBody(lexer_advance(escaped))
         ELSE [lexer |-> escaped, ok |-> FALSE]
    ELSE StringBody(lexer_advance(lx))

\* The string case of lexer_next_token.
ReadString(lx) ==
    LET r == StringBody(lexer_advance(lx)) IN
    IF ~r.ok \/ CurrentChar(r.lexer) = NUL
    THEN Token(r.lexer, "TOKEN_ERROR")
    ELSE Token(lexer_advance(r.lexer), "TOKEN_STRING")

RECURSIVE lexer_next_token(_)
RECURSIVE lexer_handle_indentation(_)

lexer_handle_indentation(lx) ==
    Then(lexer_calculate_indentation(lx), LAMBDA r :
    LET indent_level == r.indent_level
        current_level == r.lexer.indent_stack[Len(r.lexer.indent_stack)]
        popped == PopIndents(r.lexer.indent_stack, indent_level)
        counted == [r.lexer EXCEPT
                        !.indent_stack = popped,
                        !.dedent_count = Len(r.lexer.indent_stack) - Len(popped)]
    IN IF indent_level = -1
       THEN lexer_next_token([r.lexer EXCEPT !.at_line_start = FALSE])
       ELSE IF indent_level > current_level
       THEN Token([lexer_push_indent(r.lexer, indent_level)
                        EXCEPT !.at_line_start = FALSE], "TOKEN_INDENT")
       ELSE IF indent_level < current_level
       THEN IF popped[Len(popped)] # indent_level
            THEN Token(counted, "TOKEN_ERROR")
            ELSE IF counted.dedent_count > 0
            THEN Token([counted EXCEPT !.pending_dedents = TRUE,
                                       !.dedent_count = @ - 1,
                                       !.at_line_start = FALSE], "TOKEN_DEDENT")
            ELSE lexer_next_token([counted EXCEPT !.at_line_start = FALSE])
       ELSE lexer_next_token([r.lexer EXCEPT !.at_line_start = FALSE]))

\* lexer_next_token from the call of lexer_skip_whitespace_and_comments on.
TokenAfterIndentation(lx) ==
    Then(lexer_skip_whitespace_and_comments(lx), LAMBDA skipped :
    LET current_char == CurrentChar(skipped)
    IN IF current_char = NUL
       THEN Token(skipped, "TOKEN_EOF")
       ELSE IF current_char = "\n"
       THEN Token([lexer_advance(skipped) EXCEPT !.at_line_start = TRUE],
                  "TOKEN_NEWLINE")
       ELSE IF current_char \in Letters
       THEN ReadIdentifier(skipped)
       ELSE IF current_char = "\""
       THEN ReadString(skipped)
       ELSE IF current_char = "/"
       THEN ValuedToken(lexer_advance(skipped), "TOKEN_OPERATOR", current_char)
       ELSE IF current_char \in {"(", ")", "{", "}", "[", "]", ",", ";", ":"}
       THEN ValuedToken(lexer_advance(skipped), "TOKEN_PUNCTUATION",
                        current_char)
       ELSE Token(lexer_advance(skipped), "TOKEN_ERROR"))

lexer_next_token(lx) ==
    IF lx.at_line_start
    THEN Then(lexer_handle_indentation(lx), LAMBDA handled :
              IF handled.type # "TOKEN_EOF" THEN handled
              ELSE TokenAfterIndentation(handled.lexer))
    ELSE TokenAfterIndentation(lx)

\* The input texts: at most MaxLines lines, each of at most MaxIndent
\* spaces followed by a word, a comment or nothing, joined by newlines.
LineBodies == << <<"a">>, <<"/", "/">>, <<>> >>

Spaces(n) == [i \in 1..n |-> " "]

RECURSIVE JoinLines(_, _)
JoinLines(lines, i) ==
    IF i > Len(lines) THEN <<>>
    ELSE Spaces(lines[i][1]) \o LineBodies[lines[i][2]]
         \o (IF i < Len(lines) THEN <<"\n">> ELSE <<>>)
         \o JoinLines(lines, i + 1)

LineChoices == (0..MaxIndent) \X (1..Len(LineBodies))

InitLexer ==
    /\ pc = "lexing"
    /\ \E n \in 1..MaxLines : \E lines \in [1..n -> LineChoices] :
          lexer = lexer_init(JoinLines(lines, 1))
    /\ tokens = <<>>
    /\ operand_order = "left_first"
    /\ ast = <<>>
    /\ chunk = EmptyCompileState.chunk
    /\ symtab = <<>>
    /\ diagnostics = <<>>
    /\ compile_ok = FALSE
    /\ vm = NewVM
    /\ g_globals = <<>>
    /\ result = -1
    /\ output = <<>>
    /\ jchunk = <<>>
    /\ jsites = <<>>
    /\ file = <<>>
    /\ other_vm = <<>>
    /\ heap = <<>>
    /\ parser = <<>>

\* One call of lexer_next_token by the parser, until it has returned
\* TOKEN_EOF.
LexerNextToken ==
    /\ pc = "lexing"
    /\ LET t == lexer_next_token(lexer) IN
       /\ lexer' = t.lexer
       /\ tokens' = Append(tokens, t.type)
       /\ pc' = IF t.type = "TOKEN_EOF" THEN "lexed" ELSE "lexing"
    /\ UNCHANGED <<CompileVars, vm, g_globals, result, output, jchunk, jsites,
                   file, heap, parser,
                   other_vm>>

NextLexer == LexerNextToken

SpecLexer == InitLexer /\ [][NextLexer]_vars

\* How many of the tokens returned so far have the given type.
CountTokens(type) == Cardinality({i \in 1..Len(tokens) : tokens[i] = type})

\* C4: when TOKEN_EOF has been returned, the stream holds as many Dedent
\* tokens as Indent tokens.
C4_IndentsBalancedAtEof ==
    pc = "lexed" => CountTokens("TOKEN_INDENT") = CountTokens("TOKEN_DEDENT")

\* C5: when the first ordinary token of a line is returned, every level
\* popped so far has had its Dedent token: in a stream without Error, the
\* Dedent tokens number the Indent tokens less the levels still open.
C5_OneDedentPerPoppedLevel ==
    (/\ tokens # <<>>
     /\ tokens[Len(tokens)] \in {"TOKEN_IDENTIFIER", "TOKEN_OPERATOR"}
     /\ CountTokens("TOKEN_ERROR") = 0)
    => CountTokens("TOKEN_DEDENT")
            = CountTokens("TOKEN_INDENT") - (Len(lexer.indent_stack) - 1)

----------------------------------------------------------------------------
\* Lines of any kind: words, comments, blank lines, lines that end in a
\* carriage return, an invalid character, string literals.

MaxWideLines == 2

WideBodies ==
    << <<"a">>, <<"/", "/">>, <<>>, <<"\r">>, <<"@">>, <<"\"", "a">>,
       <<"\"", "\\">> >>

RECURSIVE JoinWide(_, _)
JoinWide(lines, i) ==
    IF i > Len(lines) THEN <<>>
    ELSE Spaces(lines[i][1]) \o WideBodies[lines[i][2]]
         \o (IF i < Len(lines) THEN <<"\n">> ELSE <<>>)
         \o JoinWide(lines, i + 1)

InitLines ==
    /\ pc = "lexing"
    /\ \E n \in 1..MaxWideLines :
          \E lines \in [1..n -> (0..MaxIndent) \X (1..Len(WideBodies))] :
             lexer = lexer_init(JoinWide(lines, 1))
    /\ tokens = <<>>
    /\ operand_order = "left_first"
    /\ ast = <<>>
    /\ chunk = EmptyCompileState.chunk
    /\ symtab = <<>>
    /\ diagnostics = <<>>
    /\ compile_ok = FALSE
    /\ vm = NewVM
    /\ g_globals = <<>>
    /\ result = -1
    /\ output = <<>>
    /\ jchunk = <<>>
    /\ jsites = <<>>
    /\ file = <<>>
    /\ other_vm = <<>>
    /\ heap = <<>>
    /\ parser = <<>>

SpecLines == InitLines /\ [][NextLexer]_vars

TokenTypes ==
    {"TOKEN_EOF", "TOKEN_ERROR", "TOKEN_NEWLINE", "TOKEN_INDENT",
     "TOKEN_DEDENT", "TOKEN_IDENTIFIER", "TOKEN_OPERATOR", "TOKEN_STRING"}

\* a step in which the parser is given one more token
TokenReturned ==
    /\ pc = "lexing"
    /\ \E type \in TokenTypes : tokens' = Append(tokens, type)

\* the parser goes on asking for tokens until it has been given TOKEN_EOF
SpecLinesFair == SpecLines /\ WF_tokens(TokenReturned)

RECURSIVE AfterWhitespace(_, _)
\* the position of the first byte at or after pos that is no whitespace
AfterWhitespace(source, pos) ==
    IF pos < Len(source) /\ source[pos + 1] \in {" ", "\t", "\r"}
    THEN AfterWhitespace(source, pos + 1)
    ELSE pos

\* the lexer stands at the start of a line that is blank or a `//` comment
AtBlankOrCommentLine ==
    /\ pc = "lexing"
    /\ lexer.at_line_start
    /\ LET q == AfterWhitespace(lexer.source, lexer.position)
           first == IF q < Len(lexer.source) THEN lexer.source[q + 1] ELSE NUL
           second == IF q + 1 < Len(lexer.source) THEN lexer.source[q + 2]
                     ELSE NUL
       IN first \in {"\n", NUL} \/ (first = "/" /\ second = "/")

\* C32: the token returned at the start of a blank or comment line is
\* neither Indent nor Dedent, and the indentation stack stays as it was.
C32_BlankLinesLeaveIndentation ==
    [][AtBlankOrCommentLine =>
          /\ lexer'.indent_stack = lexer.indent_stack
          /\ tokens'[Len(tokens')] \notin {"TOKEN_INDENT", "TOKEN_DEDENT"}]_vars

\* C40: a call that does not return Eof consumes input or shrinks the
\* indentation stack, and Eof is returned in the end.
C40_LexerReachesEof ==
    /\ [][tokens'[Len(tokens')] # "TOKEN_EOF" =>
             \/ lexer'.position > lexer.position
             \/ Len(lexer'.indent_stack) < Len(lexer.indent_stack)]_vars
    /\ <>(pc = "lexed")

\* Eof has been returned after an Error token
C40_Witness_EofAfterError ==
    /\ pc = "lexed"
    /\ \E i \in 1..Len(tokens) : tokens[i] = "TOKEN_ERROR"

----------------------------------------------------------------------------
\* Deep nesting: texts whose every line is indented one space more than the
\* line before it.

MaxDepth == 64

RECURSIVE DeepText(_, _)
\* lines i..n, line k being k spaces and a word
DeepText(i, n) ==
    IF i > n THEN <<>>
    ELSE Spaces(i) \o <<"a", "\n">> \o DeepText(i + 1, n)

InitDeep ==
    /\ pc = "lexing"
    /\ \E n \in 1..MaxDepth : lexer = lexer_init(DeepText(1, n))
    /\ tokens = <<>>
    /\ operand_order = "left_first"
    /\ ast = <<>>
    /\ chunk = EmptyCompileState.chunk
    /\ symtab = <<>>
    /\ diagnostics = <<>>
    /\ compile_ok = FALSE
    /\ vm = NewVM
    /\ g_globals = <<>>
    /\ result = -1
    /\ output = <<>>
    /\ jchunk = <<>>
    /\ jsites = <<>>
    /\ file = <<>>
    /\ other_vm = <<>>
    /\ heap = <<>>
    /\ parser = <<>>

SpecDeep == InitDeep /\ [][NextLexer]_vars

RECURSIVE WidthBefore(_, _)
\* the width of the run of spaces and tabs that ends before position pos
WidthBefore(source, pos) ==
    IF pos = 0 THEN 0
    ELSE IF source[pos] = " " THEN 1 + WidthBefore(source, pos - 1)
    ELSE IF source[pos] = "\t" THEN 4 + WidthBefore(source, pos - 1)
    ELSE 0

\* C31: when an Indent token has just been returned for a line of width w,
\* the top of the indentation stack is w.
C31_IndentPushesWidth ==
    (tokens # <<>> /\ tokens[Len(tokens)] = "TOKEN_INDENT")
    => lexer.indent_stack[Len(lexer.indent_stack)]
           = WidthBefore(lexer.source, lexer.position)

----------------------------------------------------------------------------
(* Forward jumps (compiler.c): emit_jump and patch_jump as compile_statement *)
(* uses them for if and while, around bodies of any length.                 *)

\* The lengths of the code a condition, a body or an else part compiles to.
BodySizes == {1, 250, MaxBody}

InitJump ==
    /\ pc = "emitting"
    /\ jchunk = EmptyCompileState
    /\ jsites = <<>>
    /\ file = <<>>
    /\ other_vm = <<>>
    /\ heap = <<>>
    /\ parser = <<>>
    /\ operand_order = "left_first"
    /\ ast = <<>>
    /\ chunk = EmptyCompileState.chunk
    /\ symtab = <<>>
    /\ diagnostics = <<>>
    /\ compile_ok = FALSE
    /\ vm = NewVM
    /\ g_globals = <<>>
    /\ result = -1
    /\ output = <<>>
    /\ lexer = <<>>
    /\ tokens = <<>>

OtherVars == <<CompileVars, vm, g_globals, result, output, lexer, tokens,
               file, heap, parser,
                   other_vm>>

\* compile_expression or compile_node emits the n bytes of a sub-tree, each
\* with emit_byte.
EmitBody ==
    /\ pc = "emitting"
    /\ \E n \in BodySizes :
          /\ Len(jchunk.chunk.code) + n <= MaxBody + 256 * MaxJumps
          /\ jchunk' = [jchunk EXCEPT !.chunk.code = @ \o [i \in 1..n |-> OP_POP]]
    /\ pc' = "emitted"
    /\ UNCHANGED <<jsites, OtherVars>>

\* `int site = emit_jump(chunk, op);`
EmitJump ==
    /\ pc \in {"emitting", "emitted"}
    /\ Len(jsites) < MaxJumps
    /\ \E op \in {OP_JUMP_IF_FALSE, OP_JUMP} :
          /\ jchunk' = emit_jump(jchunk, op)
          /\ jsites' = Append(jsites, [site |-> JumpSite(jchunk'), target |-> -1])
    /\ pc' = "emitting"
    /\ UNCHANGED OtherVars

\* `patch_jump(chunk, site);` for a site not patched yet: the target is the
\* end of the code at this moment.
PatchJump ==
    /\ pc \in {"emitting", "emitted"}
    /\ \E i \in 1..Len(jsites) :
          /\ jsites[i].target = -1
          /\ jchunk' = patch_jump(jchunk, jsites[i].site)
          /\ jsites' = [jsites EXCEPT ![i].target = Len(jchunk.chunk.code)]
    /\ pc' = "emitting"
    /\ UNCHANGED OtherVars

NextJump == EmitBody \/ EmitJump \/ PatchJump

SpecJump == InitJump /\ [][NextJump]_vars

\* The 16-bit big-endian operand stored at offset site of the code.
U16At(code, site) == code[site + 1] * 256 + code[site + 2]

\* C10: the operand of every patched forward jump is the distance from the
\* end of the operand to the target, whatever the length of the code
\* between them.
C10_PatchedOperandIsDistance ==
    \A i \in 1..Len(jsites) :
        jsites[i].target # -1 =>
            U16At(jchunk.chunk.code, jsites[i].site)
                = jsites[i].target - (jsites[i].site + 2)

----------------------------------------------------------------------------
(* Backward jumps: the loops of compile_statement (while, for, iterators)   *)
(* and the OP_LOOP instruction of vm_run that closes each of them.          *)

InitLoop ==
    /\ pc = "emitting"
    /\ jchunk = EmptyCompileState
    /\ jsites = <<>>
    /\ file = <<>>
    /\ other_vm = <<>>
    /\ heap = <<>>
    /\ parser = <<>>
    /\ operand_order \in {"left_first", "right_first"}
    /\ ast = <<>>
    /\ chunk = EmptyCompileState.chunk
    /\ symtab = <<>>
    /\ diagnostics = <<>>
    /\ compile_ok = FALSE
    /\ vm = NewVM
    /\ g_globals = <<>>
    /\ result = -1
    /\ output = <<>>
    /\ lexer = <<>>
    /\ tokens = <<>>

\* `int loopStart = chunk->code_count;`
LoopStart ==
    /\ pc \in {"emitting", "emitted"}
    /\ Len(jsites) < MaxJumps
    /\ jsites' = Append(jsites, [site |-> -1,
                                 target |-> Len(jchunk.chunk.code)])
    /\ pc' = "emitting"
    /\ UNCHANGED <<jchunk, OtherVars>>

\* The end of the innermost loop still open: OP_LOOP and its offset.
EmitLoop ==
    /\ pc \in {"emitting", "emitted"}
    /\ \E i \in 1..Len(jsites) :
          /\ jsites[i].site = -1
          /\ \A j \in (i + 1)..Len(jsites) : jsites[j].site # -1
          /\ jchunk' = emit_loop(jchunk, jsites[i].target)
          /\ jsites' = [jsites EXCEPT ![i].site = Len(jchunk.chunk.code)]
    /\ pc' = "emitting"
    /\ UNCHANGED OtherVars

\* vm_run, on the chunk compiled so far, arrives at the OP_LOOP of one of
\* the loops.
ReachLoop ==
    /\ pc \in {"emitting", "emitted"}
    /\ \A i \in 1..Len(jsites) : jsites[i].site # -1
    /\ \E i \in 1..Len(jsites) :
          vm' = [NewVM EXCEPT !.ip = jsites[i].site]
    /\ chunk' = jchunk.chunk
    /\ pc' = "running"
    /\ UNCHANGED <<operand_order, ast, symtab, diagnostics, compile_ok,
                   g_globals, result, output, lexer, tokens, jchunk, jsites,
                   file, heap, parser,
                   other_vm>>

NextLoop == LoopStart \/ EmitBody \/ EmitLoop \/ ReachLoop \/ OpLoop

SpecLoop == InitLoop /\ [][NextLoop]_vars

\* C11: executing the OP_LOOP that closes a loop sets ip to the loop's
\* loop_start, the offset of the first byte of its condition.
C11_LoopReturnsToLoopStart ==
    [][\A i \in 1..Len(jsites) :
          (Fetches(OP_LOOP) /\ vm.ip = jsites[i].site /\ pc' = "running")
              => vm'.ip = jsites[i].target]_vars

----------------------------------------------------------------------------
(* Function calls: OP_CALL and OP_RETURN of vm_run, on chunks that the run  *)
(* subcommand reads from a bytecode file.                                   *)

\* The argCount vm_pop calls of OP_CALL, args[argCount - 1] first.
RECURSIVE PopArgs(_, _)
PopArgs(v, n) ==
    IF n = 0 THEN [vm |-> v, args |-> <<>>]
    ELSE LET p == vm_pop(v)
             r == PopArgs(p.vm, n - 1)
         IN [vm |-> r.vm, args |-> Append(r.args, p.value)]

\* The slot OP_CALL gives argument i.
LocalVarIndex(i) == 256 + i

OpCall ==
    /\ Fetches(OP_CALL)
    /\ IF ~HasOperands(2) THEN Undefined /\ UNCHANGED g_globals
       ELSE LET funcIndex == CodeAt(vm.ip + 1)
                argCount == CodeAt(vm.ip + 2)
                returnIP == vm.ip + 3
            IN IF funcIndex >= Len(chunk.constants)
               THEN /\ Return(vm, 1, "VM Error: Invalid function index")
                    /\ UNCHANGED g_globals
               ELSE IF chunk.constants[funcIndex + 1].type # "NUMBER"
               THEN /\ Return(vm, 1, "VM Error: Function info is not a number")
                    /\ UNCHANGED g_globals
               ELSE IF \E i \in 0..(argCount - 1) :
                          LocalVarIndex(i) < 512
                          /\ LocalVarIndex(i) >= GLOBALS_SIZE
               THEN Undefined /\ UNCHANGED g_globals
               ELSE LET p == PopArgs(vm, argCount) IN
                    /\ g_globals' =
                          [k \in DOMAIN g_globals |->
                              IF k >= LocalVarIndex(0)
                                 /\ k < LocalVarIndex(argCount)
                              THEN p.args[k - LocalVarIndex(0) + 1]
                              ELSE g_globals[k]]
                    /\ Break(vm_push(p.vm, NumberValue(returnIP)),
                             chunk.constants[funcIndex + 1].number_value)
    /\ UNCHANGED <<CompileVars, IdleVars, output>>

OpReturn ==
    /\ Fetches(OP_RETURN)
    /\ IF vm.stack_top <= 0 THEN Return(vm, 0, "")
       ELSE LET p == vm_pop(vm) IN
            IF p.value.type = "NUMBER"
            THEN Break(p.vm, p.value.number_value)
            ELSE Break(vm_push(p.vm, p.value), vm.ip + 1)
    /\ UNCHANGED <<CompileVars, IdleVars, g_globals, output>>

\* The constants of the chunks below: the entry offset of the function,
\* then the values its body and its callers push.
CallConstants ==
    <<NumberValue(3), NumberValue(0), StringValue("s"), NullValue>>

RECURSIVE LoadConsts(_, _)
LoadConsts(indices, i) ==
    IF i > Len(indices) THEN <<>>
    ELSE <<OP_LOAD_CONST, indices[i]>> \o LoadConsts(indices, i + 1)

\* jump SKIP; entry: body, return; SKIP: arguments, call, eof.  The body
\* pushes the constants named by pushes.
CallChunk(pushes, argc) ==
    LET body == LoadConsts(pushes, 1) IN
    [code |-> <<OP_JUMP, 0, Len(body) + 1>> \o body \o <<OP_RETURN>>
              \o LoadConsts([i \in 1..argc |-> 2], 1)
              \o <<OP_CALL, 0, argc, OP_EOF>>,
     constants |-> CallConstants]

PushChoices ==
    UNION {[1..n -> 1..(Len(CallConstants) - 1)] : n \in 0..MaxPushes}

\* After read_chunk and vm_create.
InitCall ==
    /\ pc = "created"
    /\ operand_order \in {"left_first", "right_first"}
    /\ \E pushes \in PushChoices, argc \in 0..MaxArgs :
          chunk = CallChunk(pushes, argc)
    /\ ast = <<>>
    /\ symtab = <<>>
    /\ diagnostics = <<>>
    /\ compile_ok = FALSE
    /\ vm = NewVM
    /\ g_globals = ZeroGlobals
    /\ result = -1
    /\ output = <<>>
    /\ IdleInit

NextCall ==
    \/ VmRunEnter
    \/ OpJump
    \/ OpLoadConst
    \/ OpCall
    \/ OpReturn
    \/ OpEof
    \/ FetchOutOfBounds

SpecCall == InitCall /\ [][NextCall]_vars

\* The offset the one OP_CALL of a CallChunk saves: the instruction after it.
ReturnOffset == Len(chunk.code) - 1

\* The return markers on a stack of a CallChunk run.
Markers(stack) ==
    {k \in 1..Len(stack) : stack[k] = NumberValue(ReturnOffset)}

\* C12: when OP_RETURN executes while a return marker is on the stack, the
\* marker of the matching call is popped and ip becomes the offset that call
\* saved, whatever the function pushed above the marker.
C12_ReturnRestoresCallerIp ==
    [][(Fetches(OP_RETURN) /\ Markers(vm.stack) # {})
          => /\ pc' = "running"
             /\ vm'.ip = ReturnOffset
             /\ Cardinality(Markers(vm'.stack))
                   = Cardinality(Markers(vm.stack)) - 1]_vars

\* OP_CALL is about to run with a valid function constant and its argCount
\* arguments on the stack.
CallsWithArguments ==
    /\ Fetches(OP_CALL)
    /\ HasOperands(2)
    /\ CodeAt(vm.ip + 1) < Len(chunk.constants)
    /\ chunk.constants[CodeAt(vm.ip + 1) + 1].type = "NUMBER"
    /\ CodeAt(vm.ip + 2) >= 1
    /\ vm.stack_top >= CodeAt(vm.ip + 2)

\* C14: when OP_CALL executes with argc arguments, slot 256 + i of the
\* global value array exists and holds argument i afterwards.
C14_ArgumentsStoredInLocalSlots ==
    [][CallsWithArguments =>
          \A i \in 0..(CodeAt(vm.ip + 2) - 1) :
              /\ LocalVarIndex(i) \in DOMAIN g_globals'
              /\ g_globals'[LocalVarIndex(i)]
                    = vm.stack[vm.stack_top - CodeAt(vm.ip + 2) + 1 + i]]_vars

----------------------------------------------------------------------------
(* Variable slots: programs with many distinct variable names, compiled    *)
(* and run.                                                                *)

\* v1: 1, v2: 1, ..., vn: 1
VarProgram(n) ==
    [i \in 1..n |-> VariableDecl("v" \o ToString(i), Num("1"), TRUE)]

InitVars ==
    /\ pc = "source"
    /\ operand_order \in {"left_first", "right_first"}
    /\ \E n \in (MaxVars - 2)..MaxVars : ast = VarProgram(n)
    /\ chunk = EmptyCompileState.chunk
    /\ symtab = EmptyCompileState.symtab
    /\ diagnostics = <<>>
    /\ compile_ok = FALSE
    /\ vm = NewVM
    /\ g_globals = ZeroGlobals
    /\ result = -1
    /\ output = <<>>
    /\ IdleInit

NextVars ==
    \/ CompileEmberSource
    \/ VmCreate
    \/ VmRunEnter
    \/ OpLoadConst
    \/ OpStoreVar
    \/ OpEof

SpecVars == InitVars /\ [][NextVars]_vars

\* C13: every OP_LOAD_VAR / OP_STORE_VAR instruction of a compiled chunk,
\* when the run arrives at it, has an operand (as the compiler wrote it, high
\* byte first) smaller than the size of the VM's global value array.
C13_VariableOperandsInsideGlobals ==
    (Fetches(OP_LOAD_VAR) \/ Fetches(OP_STORE_VAR)) =>
        CodeAt(vm.ip + 1) * 256 + CodeAt(vm.ip + 2) < GLOBALS_SIZE

----------------------------------------------------------------------------
(* The bytecode file (main.c): write_chunk and read_chunk.  The file is a   *)
(* sequence of bytes; the 8 bytes of a double are kept as one cell holding  *)
(* the number followed by 7 cells of padding, the 4 bytes of a type tag as  *)
(* one cell holding the type followed by 3.                                 *)

\* fwrite of an int: 4 bytes, low byte first.
Int32(n) ==
    <<n % 256, (n \div 256) % 256, (n \div 65536) % 256,
      (n \div 16777216) % 256>>

TypeTag(type) == <<type, 0, 0, 0>>

Double(n) == <<[double |-> n], 0, 0, 0, 0, 0, 0, 0>>

\* The characters of the strings the chunks below hold.
Chars(s) ==
    CASE s = "" -> <<>> [] s = "s" -> <<"s">> [] s = "ab" -> <<"a", "b">>

RECURSIVE JoinChars(_, _)
JoinChars(chars, i) ==
    IF i > Len(chars) THEN "" ELSE chars[i] \o JoinChars(chars, i + 1)

\* One iteration of write_chunk's loop: the type, then the data of the
\* types it knows; for any other type a warning and no data.
WriteConstant(value) ==
    TypeTag(value.type) \o
    CASE value.type = "NUMBER" -> Double(value.number_value)
      [] value.type = "BOOLEAN" -> <<IF value.boolean_value THEN 1 ELSE 0>>
      [] value.type = "NULL" -> <<>>
      [] value.type = "STRING" ->
            Int32(Len(value.string_value)) \o Chars(value.string_value)
      [] OTHER -> <<>>

RECURSIVE WriteConstants(_, _)
WriteConstants(constants, i) ==
    IF i > Len(constants) THEN <<>>
    ELSE WriteConstant(constants[i]) \o WriteConstants(constants, i + 1)

write_chunk(c) ==
    Int32(Len(c.code)) \o Int32(Len(c.constants)) \o c.code
        \o WriteConstants(c.constants, 1)

\* fread of n bytes at pos (0-based) succeeds when the file holds them.
CanRead(f, pos, n) == pos + n <= Len(f)

ReadInt32(f, pos) ==
    f[pos + 1] + f[pos + 2] * 256 + f[pos + 3] * 65536
        + f[pos + 4] * 16777216

\* The loop of read_chunk over the constants: n constants are left to read
\* from pos.  ok is FALSE when read_chunk returns NULL.
RECURSIVE ReadConstants(_, _, _, _)
ReadConstants(f, pos, n, acc) ==
    IF n = 0 THEN [ok |-> TRUE, constants |-> acc]
    ELSE IF ~CanRead(f, pos, 4) THEN [ok |-> FALSE, constants |-> acc]
    ELSE LET t == f[pos + 1]
             p == pos + 4
         IN CASE t = "NUMBER" ->
                   IF ~CanRead(f, p, 8) THEN [ok |-> FALSE, constants |-> acc]
                   ELSE ReadConstants(f, p + 8, n - 1,
                            Append(acc, NumberValue(f[p + 1].double)))
              [] t = "BOOLEAN" ->
                   IF ~CanRead(f, p, 1) THEN [ok |-> FALSE, constants |-> acc]
                   ELSE ReadConstants(f, p + 1, n - 1,
                            Append(acc, BooleanValue(f[p + 1] # 0)))
              [] t = "NULL" ->
                   ReadConstants(f, p, n - 1, Append(acc, NullValue))
              [] t = "STRING" ->
                   IF ~CanRead(f, p, 4) THEN [ok |-> FALSE, constants |-> acc]
                   ELSE LET slen == ReadInt32(f, p) IN
                        IF ~CanRead(f, p + 4, slen)
                        THEN [ok |-> FALSE, constants |-> acc]
                        ELSE ReadConstants(f, p + 4 + slen, n - 1,
                                Append(acc, StringValue(
                                    JoinChars(SubSeq(f, p + 5, p + 4 + slen),
                                              1))))
              [] OTHER -> [ok |-> FALSE, constants |-> acc]

read_chunk(f) ==
    IF ~CanRead(f, 0, 8) THEN [ok |-> FALSE, chunk |-> EmptyCompileState.chunk]
    ELSE LET code_len == ReadInt32(f, 0)
             constants_count == ReadInt32(f, 4)
         IN IF ~CanRead(f, 8, code_len)
            THEN [ok |-> FALSE, chunk |-> EmptyCompileState.chunk]
            ELSE LET r == ReadConstants(f, 8 + code_len, constants_count, <<>>)
                 IN [ok |-> r.ok,
                     chunk |-> [code |-> SubSeq(f, 9, 8 + code_len),
                                constants |-> r.constants]]

\* The constants of the chunks written and read back.
ScalarPool ==
    {NullValue, BooleanValue(TRUE), BooleanValue(FALSE), NumberValue(0),
     NumberValue(42), StringValue(""), StringValue("s"), StringValue("ab")}

ConstantPool ==
    ScalarPool \cup {ArrayValue(<<>>), ArrayValue(<<NumberValue(1)>>)}

InitCodec ==
    /\ pc = "chunk"
    /\ \E code \in {<<OP_EOF>>, <<OP_LOAD_CONST, 0, OP_POP, OP_EOF>>},
          n \in 0..MaxConstants :
          \E constants \in [1..n -> ConstantPool] :
             chunk = [code |-> code, constants |-> constants]
    /\ operand_order = "left_first"
    /\ ast = <<>>
    /\ symtab = <<>>
    /\ diagnostics = <<>>
    /\ compile_ok = TRUE
    /\ vm = NewVM
    /\ g_globals = <<>>
    /\ result = -1
    /\ output = <<>>
    /\ IdleInit

\* main (compile): write_chunk(output_file, chunk)
WriteChunk ==
    /\ pc = "chunk"
    /\ file' = write_chunk(chunk)
    /\ pc' = "written"
    /\ UNCHANGED <<CompileVars, vm, g_globals, result, output, lexer, tokens,
                   jchunk, jsites, heap, parser, other_vm>>

\* main (run): chunk = read_chunk(input_file); NULL ends the run with 1.
ReadChunk ==
    /\ pc = "written"
    /\ LET r == read_chunk(file) IN
          IF r.ok
          THEN chunk' = r.chunk /\ pc' = "created" /\ UNCHANGED result
          ELSE pc' = "failed" /\ result' = 1 /\ UNCHANGED chunk
    /\ UNCHANGED <<operand_order, ast, symtab, diagnostics, compile_ok, vm,
                   g_globals, output, IdleVars>>

NextCodec == WriteChunk \/ ReadChunk

SpecCodec == InitCodec /\ [][NextCodec]_vars

\* The constants are Null, Boolean, Number, String or arrays of those.
RoundTripConstants ==
    \A i \in 1..Len(chunk.constants) :
        \/ chunk.constants[i] \in ScalarPool
        \/ /\ chunk.constants[i].type = "ARRAY"
           /\ \A j \in 1..chunk.constants[i].count :
                 chunk.constants[i].values[j] \in ScalarPool

\* C15: reading back what write_chunk wrote for a chunk whose constants are
\* Null, Boolean, Number, String or arrays of those succeeds and yields a
\* chunk with the same code and equal constants.
C15_ChunkRoundTrip ==
    (pc = "written" /\ RoundTripConstants) =>
        /\ read_chunk(file).ok
        /\ read_chunk(file).chunk = chunk

----------------------------------------------------------------------------
\* Logical operators: compile_expression emits both operands and then OP_AND
\* or OP_OR; vm_run has no case for either opcode.

\* the last statement of the program is `left op right`
EndsWithLogical(op) ==
    /\ Len(ast) > 0
    /\ ast[Len(ast)].type = "AST_BINARY_OP"
    /\ ast[Len(ast)].op_symbol = op

\* C17: the right operand of `false && b` and of `true || b` is not evaluated
\* (the print in it writes nothing), and a program ending in a logical
\* expression runs to the end without a runtime error.
C17_LogicalShortCircuit ==
    (EndsWithLogical("&&") \/ EndsWithLogical("||")) =>
        /\ (ast[Len(ast)].left.type = "AST_LITERAL" => output = <<>>)
        /\ (pc = "returned" => result = 0)

\* vm_run is about to execute the OP_STORE_VAR emitted for an assignment
\* x = e, with the value of e on top of the stack.
StoresAssignment ==
    /\ Fetches(OP_STORE_VAR)
    /\ StatementAt(vm.ip) > 0
    /\ ast[StatementAt(vm.ip)].type = "AST_ASSIGNMENT"
    /\ vm.stack_top > 0

\* C18: the store of an assignment x = e puts the value of e in x's slot and
\* leaves it on top of the stack, so that the stack is one deeper than it
\* was before the expression.
C18_AssignmentLeavesValue ==
    [][StoresAssignment =>
          LET x == ast[StatementAt(vm.ip)].variable
              slot == symtab[FindSymbol(symtab, x)].index
              value == vm.stack[vm.stack_top]
          IN /\ pc' = "running"
             /\ g_globals'[slot] = value
             /\ vm'.stack_top = vm.stack_top
             /\ vm'.stack[vm'.stack_top] = value]_vars

\* The program declares b: {p: 1} and ends with
\* c: {:[b], <own properties>} ; print(c.p).
EndsWithMixin(keys, values) ==
    LET n == Len(ast) IN
    /\ n >= 3
    /\ ast[n - 1] = VariableDecl("c", ObjectLiteral(<<"b">>, keys, values), TRUE)
    /\ ast[n] = PrintCall(<<PropertyAccess(Variable("c"), "p")>>)
    /\ \E i \in 1..(n - 2) :
          ast[i] = VariableDecl("b", ObjectLiteral(<<>>, <<"p">>, <<Num("1")>>),
                                TRUE)

\* C19: with b = {p: 1}, the object c = {:[b], p: 2} has c.p = 2 (its own
\* property overrides the mixin's) and c = {:[b]} has c.p = 1.
C19_OwnPropertiesOverrideMixins ==
    pc = "returned" =>
        /\ EndsWithMixin(<<"p">>, <<Num("2")>>) =>
                (result = 0 /\ output = <<PrintedLine(NumberValue(2))>>)
        /\ EndsWithMixin(<<>>, <<>>) =>
                (result = 0 /\ output = <<PrintedLine(NumberValue(1))>>)

\* a program with a mixin and an overriding own property has run
C19_Witness_OverridingProperty ==
    /\ pc = "returned"
    /\ EndsWithMixin(<<"p">>, <<Num("2")>>)
    /\ output = <<PrintedLine(NumberValue(2))>>

\* The program ends with a definition f: fn(params) body and a call f(args).
EndsWithDefinedCall ==
    LET n == Len(ast) IN
    /\ n >= 2
    /\ ast[n - 1].type = "AST_FUNCTION_DEF"
    /\ ast[n].type = "AST_FUNCTION_CALL"
    /\ ast[n].function_name = ast[n - 1].function_name

\* C23: once a program that defines f and then calls f(args) is compiled,
\* no undefined-function error was printed and the code holds a call
\* instruction with the number of arguments of the call.
C23_DefinedFunctionResolves ==
    (EndsWithDefinedCall /\ pc # "source") =>
        /\ \A i \in 1..Len(diagnostics) : diagnostics[i] # "undefined function"
        /\ \E i \in 1..(Len(chunk.code) - 2) :
              /\ chunk.code[i] = OP_CALL
              /\ chunk.code[i + 2] = Len(ast[Len(ast)].arguments)

\* C24: no failure inside the VM ends the host process: a run that fails,
\* a full operand stack included, comes back from vm_run with a status.
C24_NoFailureEndsHostProcess ==
    /\ pc # "exited"
    /\ ~vm.exited

----------------------------------------------------------------------------
\* Truthiness and comparisons: vm_run on chunks that push one or two values
\* and apply OP_NOT, OP_JUMP_IF_FALSE or a comparison to them.

\* case OP_NOT: a boolean is negated; of the other values only a number
\* other than 0 and a non-empty string count as true.
OpNot ==
    /\ Fetches(OP_NOT)
    /\ LET p == vm_pop(vm)
           val == p.value
           truthy == CASE val.type = "NUMBER" -> val.number_value # 0
                       [] val.type = "STRING" -> val.string_value # ""
                       [] OTHER -> FALSE
       IN IF val.type = "BOOLEAN"
          THEN Break(vm_push(p.vm, BooleanValue(~val.boolean_value)), vm.ip + 1)
          ELSE Break(vm_push(p.vm, BooleanValue(~truthy)), vm.ip + 1)
    /\ UNCHANGED <<CompileVars, IdleVars, g_globals, output>>

OperandConstants ==
    <<NullValue, BooleanValue(FALSE), BooleanValue(TRUE), NumberValue(0),
      NumberValue(1), StringValue(""), StringValue("s")>>

\* the code that pushes an operand: a constant, or a new object
OperandPushes ==
    {<<OP_LOAD_CONST, k - 1>> : k \in 1..Len(OperandConstants)}
        \cup {<<OP_NEW_OBJECT>>}

OperandChunks ==
    {push \o <<OP_NOT, OP_EOF>> : push \in OperandPushes}
    \cup {push \o <<OP_JUMP_IF_FALSE, 0, 1, OP_NEW_OBJECT, OP_EOF>> :
              push \in OperandPushes}
    \cup {pa \o pb \o <<op, OP_EOF>> :
              pa \in OperandPushes, pb \in OperandPushes,
              op \in {OP_EQ, OP_NEQ, OP_LT, OP_GT, OP_LTE, OP_GTE}}

InitOps ==
    /\ pc = "created"
    /\ operand_order \in {"left_first", "right_first"}
    /\ \E code \in OperandChunks :
          chunk = [code |-> code, constants |-> OperandConstants]
    /\ ast = <<>>
    /\ symtab = <<>>
    /\ diagnostics = <<>>
    /\ compile_ok = FALSE
    /\ vm = NewVM
    /\ g_globals = ZeroGlobals
    /\ result = -1
    /\ output = <<>>
    /\ IdleInit

NextOps ==
    \/ VmRunEnter
    \/ OpLoadConst
    \/ OpNewObject
    \/ OpNot
    \/ OpJumpIfFalse
    \/ OpCompare
    \/ OpEof
    \/ FetchOutOfBounds

SpecOps == InitOps /\ [][NextOps]_vars

\* the falsy values: Boolean false, Number 0, Null and the empty String
Falsy(value) ==
    \/ value = BooleanValue(FALSE)
    \/ value = NumberValue(0)
    \/ value = NullValue
    \/ value = StringValue("")

\* C25: jump-if-false takes its jump exactly when the operand is falsy, and
\* not pushes true exactly when the operand is falsy.
C25_OneTruthiness ==
    [][/\ (Fetches(OP_JUMP_IF_FALSE) /\ vm.stack_top > 0) =>
              vm'.ip = vm.ip + 3 +
                       (IF Falsy(vm.stack[vm.stack_top]) THEN ReadU16 ELSE 0)
       /\ (Fetches(OP_NOT) /\ vm.stack_top > 0) =>
              vm'.stack[vm'.stack_top] =
                  BooleanValue(Falsy(vm.stack[vm.stack_top]))]_vars

\* vm_run is about to execute lt, gt, le or ge on two operands of which one
\* is not a Number.
ComparesNonNumbers ==
    /\ \E op \in {OP_LT, OP_GT, OP_LTE, OP_GTE} : Fetches(op)
    /\ vm.stack_top >= 2
    /\ \/ vm.stack[vm.stack_top].type # "NUMBER"
       \/ vm.stack[vm.stack_top - 1].type # "NUMBER"

\* C26: lt, gt, le and ge on an operand that is not a Number end vm_run
\* with a non-zero status and push no result.
C26_OrderingIsNumericOnly ==
    [][ComparesNonNumbers =>
          /\ pc' = "returned"
          /\ result' # 0
          /\ vm'.stack_top <= vm.stack_top - 2]_vars

----------------------------------------------------------------------------
\* Constant indices: programs of n literal statements  1 ; 1 ; ... ; 2,
\* compiled and run.  Each statement compiles to OP_LOAD_CONST k, OP_POP,
\* so the literal of statement j is loaded at offset 3 (j - 1).

MaxLiterals == 257

LiteralProgram(n) ==
    [i \in 1..n |-> IF i = n THEN Num("2") ELSE Num("1")]

InitLiterals ==
    /\ pc = "source"
    /\ operand_order \in {"left_first", "right_first"}
    /\ \E n \in (MaxLiterals - 2)..MaxLiterals : ast = LiteralProgram(n)
    /\ chunk = EmptyCompileState.chunk
    /\ symtab = EmptyCompileState.symtab
    /\ diagnostics = <<>>
    /\ compile_ok = FALSE
    /\ vm = NewVM
    /\ g_globals = ZeroGlobals
    /\ result = -1
    /\ output = <<>>
    /\ IdleInit

NextLiterals ==
    \/ CompileEmberSource
    \/ VmCreate
    \/ VmRunEnter
    \/ OpLoadConst
    \/ OpPop
    \/ OpEof

SpecLiterals == InitLiterals /\ [][NextLiterals]_vars

\* C27: the load-constant compiled for a literal pushes that literal's
\* value: its operand is the index of the constant added for the literal.
C27_LoadConstantLoadsItsLiteral ==
    [][Fetches(OP_LOAD_CONST) =>
          /\ pc' = "running"
          /\ CodeAt(vm.ip + 1) = vm.ip \div 3
          /\ vm'.stack[vm'.stack_top] = LiteralValue(ast[(vm.ip \div 3) + 1])]_vars

----------------------------------------------------------------------------
\* Concatenation of a String and a Number by OP_ADD.

----------------------------------------------------------------------------
(* Local imports (compiler.c, the AST_IMPORT case): the imported script    *)
(* is compiled into the importing chunk.                                   *)

\* The number of inline operand bytes vm_run reads after an opcode.
OperandBytes(op) ==
    IF op = OP_LOAD_CONST THEN 1
    ELSE IF op \in {OP_LOAD_VAR, OP_STORE_VAR, OP_JUMP, OP_JUMP_IF_FALSE,
                    OP_LOOP, OP_CALL}
         THEN 2 ELSE 0

\* The offsets of the opcodes of the code, decoded from offset ip on.
RECURSIVE InstructionOffsets(_, _)
InstructionOffsets(code, ip) ==
    IF ip >= Len(code) THEN {}
    ELSE {ip} \cup InstructionOffsets(code, ip + 1 + OperandBytes(code[ip + 1]))

EofInstructions ==
    {i \in InstructionOffsets(chunk.code, 0) : chunk.code[i + 1] = OP_EOF}

ImportsLocalFile ==
    /\ Len(ast) >= 2
    /\ ast[Len(ast) - 1] = Import("lib.ember")
    /\ ast[Len(ast)] = PrintCall(<<Num("2")>>)

\* C35: after a local .ember import is compiled into the chunk, the chunk
\* holds exactly one OP_EOF instruction, its final byte, and the statements
\* after the import run after the imported code: print(5) of lib.ember,
\* then print(2) of the importing file.
C35_ImportStripsEof ==
    (ImportsLocalFile /\ pc \notin {"source", "failed"}) =>
        /\ EofInstructions = {Len(chunk.code) - 1}
        /\ (pc = "returned" /\ result = 0) =>
                /\ Len(output) >= 2
                /\ SubSeq(output, Len(output) - 1, Len(output)) = <<"5", "2">>

C35_Witness_ImportedThenFollowing ==
    /\ ImportsLocalFile
    /\ pc = "returned"
    /\ result = 0
    /\ EofInstructions = {Len(chunk.code) - 1}
    /\ SubSeq(output, Len(output) - 1, Len(output)) = <<"5", "2">>


----------------------------------------------------------------------------
(* vm_run on arbitrary chunks: code that need not end in OP_EOF and whose  *)
(* jumps need not land inside the code.                                    *)

MaxCode == 3

FetchBytes == {OP_NOOP, OP_EOF, OP_POP, OP_JUMP, OP_LOOP}

RawCodes == UNION {[1..n -> FetchBytes] : n \in 1..MaxCode}

OpNoop ==
    /\ Fetches(OP_NOOP)
    /\ Break(vm, vm.ip + 1)
    /\ UNCHANGED <<CompileVars, IdleVars, g_globals, output>>

InitFetch ==
    /\ pc = "created"
    /\ operand_order \in {"left_first", "right_first"}
    /\ \E code \in RawCodes : chunk = [code |-> code, constants |-> <<>>]
    /\ ast = <<>>
    /\ symtab = <<>>
    /\ diagnostics = <<>>
    /\ compile_ok = FALSE
    /\ vm = NewVM
    /\ g_globals = ZeroGlobals
    /\ result = -1
    /\ output = <<>>
    /\ IdleInit

NextFetch ==
    \/ VmRunEnter
    \/ OpNoop
    \/ OpEof
    \/ OpPop
    \/ OpJump
    \/ OpLoop
    \/ FetchOutOfBounds

SpecFetch == InitFetch /\ [][NextFetch]_vars

\* C38: during vm_run every byte the VM fetches, opcode or inline operand,
\* lies at an offset in 0..code_count-1 of the chunk's code: at each fetch
\* vm.ip and the operands after it are inside the code.
C38_FetchesStayInCode ==
    pc = "running" =>
        /\ vm.ip >= 0
        /\ vm.ip < code_count
        /\ HasOperands(OperandBytes(CodeAt(vm.ip)))


----------------------------------------------------------------------------
(* Two VM instances in one process.  vm, chunk, pc, result and output are  *)
(* those of the instance that executes the next instruction; other_vm      *)
(* holds the same five of the instance that waits.  g_globals is the one   *)
(* static array of virtual_machine.c.                                      *)

MaxSlots == 2

\* x = k; x -- as bytecode: store constant 0 in the slot, load the slot
SlotCode(slot) ==
    <<OP_LOAD_CONST, 0, OP_STORE_VAR, 0, slot, OP_LOAD_VAR, 0, slot, OP_EOF>>

InitTwoVms ==
    /\ pc = "created"
    /\ operand_order \in {"left_first", "right_first"}
    /\ \E slot \in 0..(MaxSlots - 1) :
          chunk = [code |-> SlotCode(slot), constants |-> <<NumberValue(1)>>]
    /\ ast = <<>>
    /\ symtab = <<>>
    /\ diagnostics = <<>>
    /\ compile_ok = FALSE
    /\ vm = NewVM
    /\ g_globals = ZeroGlobals
    /\ result = -1
    /\ output = <<>>
    /\ lexer = [source |-> <<>>, position |-> 0, at_line_start |-> TRUE,
                indent_stack |-> <<0>>, pending_dedents |-> FALSE,
                dedent_count |-> 0]
    /\ tokens = <<>>
    /\ jchunk = <<>>
    /\ jsites = <<>>
    /\ file = <<>>
    /\ heap = <<>>
    /\ parser = <<>>
    /\ \E slot \in 0..(MaxSlots - 1) :
          other_vm = [vm |-> NewVM,
                      chunk |-> [code |-> SlotCode(slot),
                                 constants |-> <<NumberValue(2)>>],
                      pc |-> "created", result |-> -1, output |-> <<>>]

\* The other instance executes the next instruction.
Switch ==
    /\ other_vm # <<>>
    /\ vm' = other_vm.vm
    /\ chunk' = other_vm.chunk
    /\ pc' = other_vm.pc
    /\ result' = other_vm.result
    /\ output' = other_vm.output
    /\ other_vm' = [vm |-> vm, chunk |-> chunk, pc |-> pc, result |-> result,
                    output |-> output]
    /\ UNCHANGED <<operand_order, ast, symtab, diagnostics, compile_ok,
                   g_globals, lexer, tokens, jchunk, jsites, file, heap,
                   parser>>

NextTwoVms ==
    \/ VmRunEnter
    \/ OpLoadConst
    \/ OpStoreVar
    \/ OpLoadVar
    \/ OpEof
    \/ Switch

SpecTwoVms == InitTwoVms /\ [][NextTwoVms]_vars

\* The waiting instance is about to execute a load-var.
OtherLoads ==
    /\ other_vm # <<>>
    /\ other_vm.pc = "running"
    /\ other_vm.vm.ip + 2 < Len(other_vm.chunk.code)
    /\ other_vm.chunk.code[other_vm.vm.ip + 1] = OP_LOAD_VAR

\* The operand of that load-var, high byte first as the compiler wrote it.
OtherSlot ==
    other_vm.chunk.code[other_vm.vm.ip + 2] * 256
        + other_vm.chunk.code[other_vm.vm.ip + 3]

\* C39: two VM instances have disjoint global storage: no instruction of
\* one instance, store-var and the start of its run included, changes the
\* value the waiting instance's next load-var reads.
C39_GlobalsDisjoint ==
    [][(OtherLoads /\ other_vm' = other_vm) =>
           g_globals'[OtherSlot] = g_globals[OtherSlot]]_vars


\* the last statement of the program is print("n=" + 3)
EndsWithConcatenation ==
    /\ Len(ast) > 0
    /\ ast[Len(ast)] = PrintCall(<<BinaryOp(Str("n="), "+", Num("3"))>>)

\* C34: print("n=" + 3) writes n=3: the number is rendered without
\* fractional digits.
C34_NumberRenderedMinimal ==
    (EndsWithConcatenation /\ pc = "returned") =>
        (output # <<>> /\ output[Len(output)] = "n=3")

----------------------------------------------------------------------------
\* Objects: vm_run on chunks made of object operations (new-object,
\* set-property, set-nested-property, copy-properties, dup, store and load
\* of global 0).

MaxOps == 3

\* strtok(path, "."): the segments of the property paths used below
Segments(path) ==
    CASE path = "q.r" -> <<"q", "r">>
      [] path = "p.q" -> <<"p", "q">>
      [] path = "" -> <<>>
      [] OTHER -> <<path>>

RECURSIVE SetAtPath(_, _, _, _)
\* the walk of vm_set_nested_property from segment i on, in object current:
\* a segment that is present and holds an object is entered; one that holds
\* another value is replaced by an empty object; one that is absent is added
\* as an empty object; the last segment is set with vm_add_property.
SetAtPath(current, segments, i, value) ==
    IF i = Len(segments)
    THEN vm_add_property(current, segments[i], value)
    ELSE LET j == FindKey(current, segments[i]) IN
         IF j > 0
         THEN IF current.values[j].type = "OBJECT"
              THEN [current EXCEPT !.values[j] =
                        SetAtPath(current.values[j], segments, i + 1, value)]
              ELSE [current EXCEPT !.values[j] =
                        SetAtPath(EmptyObject, segments, i + 1, value)]
         ELSE LET added == vm_add_property(current, segments[i], EmptyObject)
                  last_idx == added.count
              IN [added EXCEPT !.values[last_idx] =
                     SetAtPath(added.values[last_idx], segments, i + 1, value)]

vm_set_nested_property(obj, property_path, value) ==
    IF obj.type # "OBJECT" \/ Segments(property_path) = <<>>
    THEN [success |-> FALSE, obj |-> obj]
    ELSE [success |-> TRUE,
          obj |-> SetAtPath(obj, Segments(property_path), 1, value)]

OpSetNestedProperty ==
    /\ Fetches(OP_SET_NESTED_PROPERTY)
    /\ IF vm.stack_top < 3
       THEN /\ Return(vm, 1,
                      "VM Error: Stack underflow for OP_SET_NESTED_PROPERTY")
            /\ UNCHANGED g_globals
       ELSE LET pv == vm_pop(vm)
                pp == vm_pop(pv.vm)
                po == vm_pop(pp.vm)
                r == vm_set_nested_property(runtime_value_copy(po.value),
                                            pp.value.string_value, pv.value)
                slot == MatchingGlobal(po.value.count)
            IN IF pp.value.type # "STRING"
               THEN /\ Return(vm, 1, "VM Error: OP_SET_NESTED_PROPERTY requires valid string property path.")
                    /\ UNCHANGED g_globals
               ELSE IF po.value.type # "OBJECT"
               THEN /\ Return(vm, 1, "VM Error: OP_SET_NESTED_PROPERTY requires object as target.")
                    /\ UNCHANGED g_globals
               ELSE IF ~r.success
               THEN /\ Return(po.vm, 1, "VM Error: Failed to set nested property")
                    /\ UNCHANGED g_globals
               ELSE /\ g_globals' =
                          IF slot >= 0
                          THEN [g_globals EXCEPT
                                    ![slot] = runtime_value_copy(r.obj)]
                          ELSE g_globals
                    /\ Break(vm_push(po.vm, r.obj), vm.ip + 1)
    /\ UNCHANGED <<CompileVars, IdleVars, output>>

ObjectConstants ==
    <<StringValue("p"), StringValue("q"), StringValue("r"),
      StringValue("q.r"), NumberValue(1), NumberValue(2), NumberValue(3)>>

\* code of `key: value` on the object on top of the stack; k and v are
\* indices into ObjectConstants
SetCode(k, v) == <<OP_LOAD_CONST, k, OP_LOAD_CONST, v, OP_SET_PROPERTY>>

\* the pieces the chunks are made of
ObjectOps ==
    { <<OP_NEW_OBJECT>> \o SetCode(0, 4) \o SetCode(1, 5),    \* {p: 1, q: 2}
      <<OP_NEW_OBJECT>>,
      <<OP_DUP>>,
      SetCode(0, 6),                                           \* p: 3
      SetCode(2, 4),                                           \* r: 1
      <<OP_LOAD_CONST, 3, OP_LOAD_CONST, 4, OP_SET_NESTED_PROPERTY>>,
      <<OP_COPY_PROPERTIES>>,
      <<OP_STORE_VAR, 0, 0>>,
      <<OP_LOAD_VAR, 0, 0>> }

RECURSIVE Flatten(_)
Flatten(pieces) ==
    IF pieces = <<>> THEN <<>> ELSE Head(pieces) \o Flatten(Tail(pieces))

InitObjects ==
    /\ pc = "created"
    /\ operand_order \in {"left_first", "right_first"}
    /\ \E n \in 1..MaxOps : \E pieces \in [1..n -> ObjectOps] :
          chunk = [code |-> Flatten(pieces) \o <<OP_EOF>>,
                   constants |-> ObjectConstants]
    /\ ast = <<>>
    /\ symtab = <<>>
    /\ diagnostics = <<>>
    /\ compile_ok = FALSE
    /\ vm = NewVM
    /\ g_globals = ZeroGlobals
    /\ result = -1
    /\ output = <<>>
    /\ IdleInit

NextObjects ==
    \/ VmRunEnter
    \/ OpNewObject
    \/ OpDup
    \/ OpLoadConst
    \/ OpSetProperty
    \/ OpSetNestedProperty
    \/ OpCopyProperties
    \/ OpStoreVar
    \/ OpLoadVar
    \/ OpEof

SpecObjects == InitObjects /\ [][NextObjects]_vars

\* vm_run is about to execute set-property with an object, a key and a
\* value on the stack.
SetsProperty ==
    /\ Fetches(OP_SET_PROPERTY)
    /\ vm.stack_top >= 3
    /\ vm.stack[vm.stack_top - 2].type = "OBJECT"
    /\ vm.stack[vm.stack_top - 1].type = "STRING"

\* C28: setting a key that is not present appends it after the existing
\* keys; setting a key that is present replaces its value and leaves every
\* key, and every other value, where it was.
C28_KeysKeepInsertionOrder ==
    [][SetsProperty =>
          LET obj == vm.stack[vm.stack_top - 2]
              key == vm.stack[vm.stack_top - 1].string_value
              value == vm.stack[vm.stack_top]
              new == vm'.stack[vm'.stack_top]
          IN IF \E i \in 1..obj.count : obj.keys[i] = key
             THEN /\ new.keys = obj.keys
                  /\ \A i \in 1..obj.count :
                        new.values[i] =
                            IF obj.keys[i] = key THEN value ELSE obj.values[i]
             ELSE /\ new.keys = Append(obj.keys, key)
                  /\ new.values = Append(obj.values, value)]_vars

\* {p: 1, q: 2} with p then set to 3: p is still the first key
C28_Witness_OverwriteKeepsPosition ==
    /\ pc = "returned"
    /\ chunk.code = <<OP_NEW_OBJECT>> \o SetCode(0, 4) \o SetCode(1, 5)
                        \o SetCode(0, 6) \o <<OP_EOF>>
    /\ vm.stack[1].keys = <<"p", "q">>
    /\ vm.stack[1].values = <<NumberValue(3), NumberValue(2)>>

RECURSIVE WellFormed(_)
\* an object has as many keys as values as its count says, no key twice,
\* and its values are well formed
WellFormed(value) ==
    value.type = "OBJECT" =>
        /\ Len(value.keys) = value.count
        /\ Len(value.values) = value.count
        /\ \A i, j \in 1..Len(value.keys) :
              i # j => value.keys[i] # value.keys[j]
        /\ \A i \in 1..Len(value.keys) : value.keys[i] # ""
        /\ \A i \in 1..Len(value.values) : WellFormed(value.values[i])

\* C29: every object on the operand stack or in the globals has
\* keys.len = values.len = count, no null key and no key twice.
C29_ObjectsWellFormed ==
    /\ \A i \in 1..Len(vm.stack) : WellFormed(vm.stack[i])
    /\ \A i \in DOMAIN g_globals : WellFormed(g_globals[i])

\* a nested object made by set-nested-property is stored in a global
C29_Witness_NestedObjectInGlobal ==
    \E i \in DOMAIN g_globals :
        /\ g_globals[i].type = "OBJECT"
        /\ g_globals[i].count > 0
        /\ \E j \in 1..g_globals[i].count :
              /\ g_globals[i].values[j].type = "OBJECT"
              /\ g_globals[i].values[j].count > 0

----------------------------------------------------------------------------
\* Symbol table: sequences of symbol_table_get_or_add and
\* symbol_table_get_or_add_variable calls on one table.

MaxNames == 3

SymbolNames == {<<"a", "b", "c", "d", "e">>[i] : i \in 1..MaxNames}

InitSymbols ==
    /\ pc = "symbols"
    /\ operand_order \in {"left_first", "right_first"}
    /\ ast = <<>>
    /\ chunk = [code |-> <<>>, constants |-> <<>>]
    /\ symtab = <<>>
    /\ diagnostics = <<>>
    /\ compile_ok = FALSE
    /\ vm = NewVM
    /\ g_globals = ZeroGlobals
    /\ result = -1
    /\ output = <<>>
    /\ IdleInit

\* one call of symbol_table_get_or_add for a variable reference; ast holds
\* the node whose name is looked up, result the returned index
GetOrAdd ==
    /\ pc = "symbols"
    /\ \E name \in SymbolNames :
          LET r == symbol_table_get_or_add(symtab, name, FALSE) IN
          /\ ast' = <<Variable(name)>>
          /\ symtab' = r.table
          /\ result' = r.index
    /\ UNCHANGED <<pc, operand_order, chunk, diagnostics, compile_ok, vm,
                   g_globals, output, IdleVars>>

\* one call of symbol_table_get_or_add_variable for a declaration
DeclareVariable ==
    /\ pc = "symbols"
    /\ \E name \in SymbolNames : \E is_mutable \in BOOLEAN :
          LET r == symbol_table_get_or_add_variable(symtab, name, is_mutable) IN
          /\ ast' = <<VariableDecl(name, NoNode, is_mutable)>>
          /\ symtab' = r.table
          /\ result' = r.index
    /\ UNCHANGED <<pc, operand_order, chunk, diagnostics, compile_ok, vm,
                   g_globals, output, IdleVars>>

NextSymbols == GetOrAdd \/ DeclareVariable

SpecSymbols == InitSymbols /\ [][NextSymbols]_vars

\* the call just made was symbol_table_get_or_add on a name the table had
LooksUpPresentName ==
    /\ ast' # <<>>
    /\ ast'[1].type = "AST_VARIABLE"
    /\ FindSymbol(symtab, ast'[1].variable_name) > 0

\* C30: no two symbols of the table have the same name or the same slot
\* index, and get_or_add on a name already present returns that symbol's
\* index and adds no symbol.
C30_SymbolsUnique ==
    /\ [](\A i, j \in 1..Len(symtab) :
             i # j => /\ symtab[i].name # symtab[j].name
                      /\ symtab[i].index # symtab[j].index)
    /\ [][LooksUpPresentName =>
             /\ symtab' = symtab
             /\ result' =
                    symtab[FindSymbol(symtab, ast'[1].variable_name)].index]_vars

\* get_or_add has returned the index of a symbol that was not the last added
C30_Witness_ExistingIndexReturned ==
    /\ pc = "symbols"
    /\ ast # <<>>
    /\ ast[1].type = "AST_VARIABLE"
    /\ Len(symtab) >= 2
    /\ FindSymbol(symtab, ast[1].variable_name) = 1
    /\ result = symtab[1].index

----------------------------------------------------------------------------
\* Ownership of heap storage: runtime_value_copy and runtime_free_value
\* (runtime.c).  A value here carries its pointer: ptr is the block a String's
\* characters, an Array's elements, an Object's keys and values or a user
\* function's UserDefinedFunction live in, 0 for a NULL pointer; elems are the
\* values stored in that block.  heap = [live, next, values]: the blocks that
\* are allocated, the next fresh block and the RuntimeValue structs in use.

MaxValues == 3

HeapValue(type, ptr, elems) ==
    [type |-> type, ptr |-> ptr, elems |-> elems]

RECURSIVE runtime_value_copy_alloc(_, _)
RECURSIVE copy_elements(_, _, _)

\* the loops of runtime_value_copy over elements / values, element i onwards
copy_elements(elems, i, next) ==
    IF i > Len(elems)
    THEN [elems |-> <<>>, next |-> next]
    ELSE LET c == runtime_value_copy_alloc(elems[i], next)
             r == copy_elements(elems, i + 1, c.next)
         IN [elems |-> <<c.value>> \o r.elems, next |-> r.next]

\* runtime_value_copy with the storage it allocates: the struct is copied; strings are strdup'ed, arrays and
\* objects with count > 0 get fresh blocks and copied elements; a function
\* keeps the pointer of the original.
runtime_value_copy_alloc(value, next) ==
    CASE value.type = "STRING" /\ value.ptr # 0 ->
            [value |-> [value EXCEPT !.ptr = next], next |-> next + 1]
      [] value.type \in {"ARRAY", "OBJECT"} /\ value.ptr # 0
                                            /\ Len(value.elems) > 0 ->
            LET r == copy_elements(value.elems, 1, next + 1)
            IN [value |-> [value EXCEPT !.ptr = next, !.elems = r.elems],
                next |-> r.next]
      [] OTHER -> [value |-> value, next |-> next]

RECURSIVE runtime_free_value(_, _)
RECURSIVE free_elements(_, _, _)

\* the loops of runtime_free_value over elements / values, element i onwards
free_elements(elems, i, live) ==
    IF i > Len(elems)
    THEN [live |-> live, undefined |-> FALSE]
    ELSE LET f == runtime_free_value(elems[i], live)
             r == free_elements(elems, i + 1, f.live)
         IN [live |-> r.live, undefined |-> f.undefined \/ r.undefined]

\* runtime_free_value: frees what the value points to.  Freeing or reading a
\* block that is no longer allocated is undefined.
runtime_free_value(value, live) ==
    CASE value.type \in {"STRING", "FUNCTION"} /\ value.ptr # 0 ->
            [live |-> live \ {value.ptr}, undefined |-> value.ptr \notin live]
      [] value.type \in {"ARRAY", "OBJECT"} /\ value.ptr # 0 ->
            LET r == free_elements(value.elems, 1, live)
            IN [live |-> r.live \ {value.ptr},
                undefined |-> r.undefined \/ value.ptr \notin live]
      [] OTHER -> [live |-> live, undefined |-> FALSE]

\* the values a program holds: each with its own blocks 1 and 2
HeapPool ==
    { HeapValue("NULL", 0, <<>>),
      HeapValue("NUMBER", 0, <<>>),
      HeapValue("STRING", 1, <<>>),
      HeapValue("ARRAY", 0, <<>>),
      HeapValue("ARRAY", 1, <<HeapValue("STRING", 2, <<>>)>>),
      HeapValue("OBJECT", 1, <<HeapValue("STRING", 2, <<>>)>>),
      HeapValue("OBJECT", 1, <<HeapValue("NUMBER", 0, <<>>)>>),
      HeapValue("FUNCTION", 0, <<>>),
      HeapValue("FUNCTION", 1, <<>>) }

RECURSIVE Blocks(_)
\* the blocks a value points to
Blocks(value) ==
    IF value.type = "NULL" \/ value.ptr = 0
    THEN {}
    ELSE {value.ptr} \cup
         UNION {Blocks(value.elems[i]) : i \in 1..Len(value.elems)}

InitHeap ==
    /\ pc = "heap"
    /\ \E value \in HeapPool :
          heap = [live |-> Blocks(value), next |-> 3, values |-> <<value>>,
                  freed |-> {}]
    /\ operand_order = "left_first"
    /\ ast = <<>>
    /\ chunk = [code |-> <<>>, constants |-> <<>>]
    /\ symtab = <<>>
    /\ diagnostics = <<>>
    /\ compile_ok = TRUE
    /\ vm = NewVM
    /\ g_globals = <<>>
    /\ result = -1
    /\ output = <<>>
    /\ lexer = <<>>
    /\ tokens = <<>>
    /\ jchunk = <<>>
    /\ jsites = <<>>
    /\ file = <<>>
    /\ other_vm = <<>>
    /\ parser = <<>>

HeapOtherVars ==
    <<operand_order, ast, chunk, symtab, diagnostics, compile_ok, vm,
      g_globals, result, output, lexer, tokens, jchunk, jsites, file, parser,
      other_vm>>

\* RuntimeValue copy = runtime_value_copy(&values[i]);
RuntimeValueCopy ==
    /\ pc = "heap"
    /\ Len(heap.values) < MaxValues
    /\ \E i \in 1..Len(heap.values) :
          LET c == runtime_value_copy_alloc(heap.values[i], heap.next)
          IN heap' = [heap EXCEPT !.values = Append(@, c.value),
                                  !.live = @ \cup (heap.next..(c.next - 1)),
                                  !.next = c.next]
    /\ UNCHANGED <<pc, HeapOtherVars>>

\* runtime_free_value(&values[i]); the struct's type is reset to Null
RuntimeFreeValue ==
    /\ pc = "heap"
    /\ \E i \in 1..Len(heap.values) :
          /\ heap.values[i].type # "NULL"
          /\ LET f == runtime_free_value(heap.values[i], heap.live)
             IN /\ heap' = [heap EXCEPT !.values[i] = HeapValue("NULL", 0, <<>>),
                                        !.live = f.live,
                                        !.freed = @ \cup {i}]
                /\ pc' = IF f.undefined THEN "undefined" ELSE "heap"
    /\ UNCHANGED HeapOtherVars

NextHeap == RuntimeValueCopy \/ RuntimeFreeValue

SpecHeap == InitHeap /\ [][NextHeap]_vars

\* C16: once a value has been freed, every block that a value still in use
\* points to is still allocated: a copy stays usable after its original is
\* freed, whatever its kind.
C16_CopyUsableAfterFree ==
    (pc = "heap" /\ heap.freed # {}) =>
        \A i \in 1..Len(heap.values) : Blocks(heap.values[i]) \subseteq heap.live


----------------------------------------------------------------------------
\* The parser's error handling (parser.c): parse_script, parse_statement,
\* parse_factor and parser_recover over the tokens the lexer hands out.
\* parser = [tokens, position, statements, stderr, root]: position counts the
\* tokens consumed, so the current token is tokens[position + 1], TOKEN_EOF
\* past the end.  The texts are made of a number, an identifier and the
\* punctuation `;`, `)` and `}`.

MaxTokens == 4

ParserToken(type, value) == [type |-> type, value |-> value]

TokenPool ==
    { ParserToken("TOKEN_NUMBER", "1"), ParserToken("TOKEN_IDENTIFIER", "a"),
      ParserToken("TOKEN_PUNCTUATION", ";"), ParserToken("TOKEN_PUNCTUATION", ")"),
      ParserToken("TOKEN_PUNCTUATION", "}") }

\* parser->current_token
current_token(p) ==
    IF p.position < Len(p.tokens) THEN p.tokens[p.position + 1]
    ELSE ParserToken("TOKEN_EOF", "")

parser_advance(p) ==
    IF p.position < Len(p.tokens) THEN [p EXCEPT !.position = @ + 1] ELSE p

report_error(p, message) == [p EXCEPT !.stderr = Append(@, message)]

\* parse_factor: a literal, a variable, or "Unexpected token" and NULL
parse_factor(p) ==
    CASE current_token(p).type = "TOKEN_NUMBER" ->
            [node |-> Literal("TOKEN_NUMBER", current_token(p).value),
             parser |-> parser_advance(p)]
      [] current_token(p).type = "TOKEN_IDENTIFIER" ->
            [node |-> Variable(current_token(p).value),
             parser |-> parser_advance(p)]
      [] OTHER ->
            [node |-> NoNode, parser |-> report_error(p, "Unexpected token")]

\* get_operator_precedence with one level for every operator of the table
get_operator_precedence_flat(op_symbol) ==
    IF op_symbol \in {"||", "&&", "==", "!=", "<", "<=", ">", ">=",
                       "+", "-", "*", "/", "%"}
    THEN 1
    ELSE -1

\* get_operator_precedence: the precedence table; -1 for any other operator
get_operator_precedence(op_symbol) ==
    CASE op_symbol = "||" -> 1
      [] op_symbol = "&&" -> 2
      [] op_symbol \in {"==", "!="} -> 3
      [] op_symbol \in {"<", "<=", ">", ">="} -> 4
      [] op_symbol \in {"+", "-"} -> 5
      [] op_symbol \in {"*", "/", "%"} -> 6
      [] OTHER -> -1

RECURSIVE parse_expression(_, _)
RECURSIVE expression_loop(_, _, _)

\* the while (true) loop of parse_expression, with `left` parsed so far:
\* A) `=` makes an assignment of left and the expression after it, whatever
\* min_precedence is; B) an operator below min_precedence ends the loop, any
\* other takes the expression of the next higher precedence as its right
\* side; C) any other token ends the loop.
expression_loop(left, p, min_precedence) ==
    IF current_token(p) = ParserToken("TOKEN_OPERATOR", "=")
    THEN LET r == parse_expression(parser_advance(p), 0) IN
         IF r.node = NoNode
         THEN [node |-> NoNode,
               parser |-> report_error(r.parser,
                             "Failed to parse right-hand side of assignment")]
         ELSE IF left.type \notin {"AST_VARIABLE", "AST_PROPERTY_ACCESS"}
         THEN [node |-> NoNode,
               parser |-> report_error(r.parser,
                  "Left-hand side of '=' must be a variable or property access")]
         ELSE IF left.type = "AST_PROPERTY_ACCESS"
         THEN [node |-> PropertyAssignment(left.object, left.property, r.node),
               parser |-> r.parser]
         ELSE expression_loop(Assignment(left.variable_name, r.node),
                              r.parser, min_precedence)
    ELSE IF current_token(p).type = "TOKEN_OPERATOR"
    THEN LET op == current_token(p).value
             precedence == get_operator_precedence(op)
         IN IF precedence < min_precedence
            THEN [node |-> left, parser |-> p]
            ELSE LET r == parse_expression(parser_advance(p), precedence + 1)
                 IN IF r.node = NoNode
                    THEN [node |-> NoNode,
                          parser |-> report_error(r.parser,
                             "Failed to parse right-hand side of expression")]
                    ELSE expression_loop(BinaryOp(left, op, r.node),
                                         r.parser, min_precedence)
    ELSE [node |-> left, parser |-> p]

\* parse_expression: the factor, then the operator loop
parse_expression(p, min_precedence) ==
    LET f == parse_factor(p) IN
    IF f.node = NoNode
    THEN [node |-> NoNode,
          parser |-> report_error(f.parser,
                        "Failed to parse left-hand side of expression")]
    ELSE expression_loop(f.node, f.parser, min_precedence)

consume_optional_semicolon(p) ==
    IF current_token(p) = ParserToken("TOKEN_PUNCTUATION", ";")
    THEN parser_advance(p)
    ELSE p

RECURSIVE parser_recover(_)
\* parser_recover: advance to the token after the next `;` or `}`, or to EOF
parser_recover(p) ==
    IF current_token(p).type = "TOKEN_EOF" THEN p
    ELSE IF current_token(p) \in {ParserToken("TOKEN_PUNCTUATION", ";"),
                                  ParserToken("TOKEN_PUNCTUATION", "}")}
         THEN parser_advance(p)
         ELSE parser_recover(parser_advance(p))

\* peek_token: the token after the current one
peek_token(p) ==
    IF p.position + 1 < Len(p.tokens) THEN p.tokens[p.position + 2]
    ELSE ParserToken("TOKEN_EOF", "")

RECURSIVE SkipTokens(_, _)
\* while the current token has one of the types, advance
SkipTokens(p, types) ==
    IF current_token(p).type \in types THEN SkipTokens(parser_advance(p), types)
    ELSE p

\* parse_assignment, called at an identifier that `=` follows
parse_assignment(p) ==
    LET r == parse_expression(parser_advance(parser_advance(p)), 0) IN
    IF r.node = NoNode
    THEN [node |-> NoNode,
          parser |-> report_error(r.parser,
                        "Failed to parse right-hand side of assignment")]
    ELSE [node |-> Assignment(current_token(p).value, r.node),
          parser |-> consume_optional_semicolon(r.parser)]

\* parse_implicit_variable_declaration, called at an identifier that `:`
\* follows
parse_implicit_variable_declaration(p) ==
    LET r == parse_expression(parser_advance(parser_advance(p)), 0) IN
    IF r.node = NoNode
    THEN [node |-> NoNode,
          parser |-> report_error(r.parser,
                "Failed to parse initializer for implicit variable declaration")]
    ELSE [node |-> VariableDecl(current_token(p).value, r.node, TRUE),
          parser |-> consume_optional_semicolon(r.parser)]

RECURSIVE parse_statement(_)
RECURSIVE parse_if_statement(_)
RECURSIVE block_loop(_, _)

\* the loop of parse_indented_block: statements up to TOKEN_DEDENT or
\* TOKEN_EOF, newlines between them skipped; the TOKEN_DEDENT is consumed
block_loop(p, statements) ==
    IF current_token(p).type \in {"TOKEN_DEDENT", "TOKEN_EOF"}
    THEN [node |-> Block(statements),
          parser |-> IF current_token(p).type = "TOKEN_DEDENT"
                     THEN parser_advance(p) ELSE p]
    ELSE IF current_token(p).type = "TOKEN_NEWLINE"
    THEN block_loop(parser_advance(p), statements)
    ELSE Then(parse_statement(p),
              LAMBDA s : IF s.node = NoNode THEN s
                         ELSE block_loop(s.parser, Append(statements, s.node)))

parse_indented_block(p) ==
    IF current_token(p).type # "TOKEN_INDENT"
    THEN [node |-> NoNode, parser |-> report_error(p, "Expected indented block")]
    ELSE block_loop(parser_advance(p), <<>>)

\* parse_if_statement, called at the keyword `if`, for texts without braces
\* and without `else`: `(`, the condition, `)`, newlines, an indented block
parse_if_statement(p) ==
    LET opened == parser_advance(p)
        c == parse_expression(parser_advance(opened), 0)
        body_start == SkipTokens(parser_advance(c.parser), {"TOKEN_NEWLINE"})
    IN IF current_token(opened) # ParserToken("TOKEN_PUNCTUATION", "(")
       THEN [node |-> NoNode,
             parser |-> report_error(opened, "Expected '(' after 'if'")]
       ELSE IF c.node = NoNode
       THEN [node |-> NoNode,
             parser |-> report_error(c.parser,
                            "Failed to parse condition in 'if' statement")]
       ELSE IF current_token(c.parser) # ParserToken("TOKEN_PUNCTUATION", ")")
       THEN [node |-> NoNode,
             parser |-> report_error(c.parser,
                            "Expected ')' after condition in 'if' statement")]
       ELSE IF current_token(body_start).type # "TOKEN_INDENT"
       THEN [node |-> NoNode,
             parser |-> report_error(body_start,
                    "Expected '{' or indented block for if statement body")]
       ELSE Then(parse_indented_block(body_start),
                 LAMBDA body :
                     IF body.node = NoNode
                     THEN [node |-> NoNode,
                           parser |-> report_error(body.parser,
                                    "Failed to parse body of 'if' statement")]
                     ELSE [node |-> IfStatement(c.node, body.node, NoNode),
                           parser |-> body.parser])

\* parse_statement: leading newlines, indents and dedents are skipped; an
\* `if` statement; an assignment (identifier `=`); an implicit declaration
\* (identifier `:`); else an expression statement, or "Unexpected
\* statement", parser_recover and NULL
parse_statement(p) ==
    LET q == SkipTokens(p, {"TOKEN_NEWLINE", "TOKEN_INDENT", "TOKEN_DEDENT"})
        e == parse_expression(q, 0)
    IN IF current_token(q) = ParserToken("TOKEN_KEYWORD", "if")
       THEN parse_if_statement(q)
       ELSE IF /\ current_token(q).type = "TOKEN_IDENTIFIER"
               /\ peek_token(q) = ParserToken("TOKEN_OPERATOR", "=")
       THEN parse_assignment(q)
       ELSE IF /\ current_token(q).type = "TOKEN_IDENTIFIER"
               /\ peek_token(q) = ParserToken("TOKEN_PUNCTUATION", ":")
       THEN parse_implicit_variable_declaration(q)
       ELSE IF e.node # NoNode
       THEN [node |-> e.node, parser |-> consume_optional_semicolon(e.parser)]
       ELSE [node |-> NoNode,
             parser |-> parser_recover(report_error(e.parser,
                                                    "Unexpected statement"))]

InitParser ==
    /\ pc = "parsing"
    /\ \E n \in 0..MaxTokens : \E toks \in [1..n -> TokenPool] :
          parser = [tokens |-> toks, position |-> 0, statements |-> <<>>,
                    stderr |-> <<>>, root |-> "AST_BLOCK"]
    /\ operand_order = "left_first"
    /\ ast = <<>>
    /\ chunk = [code |-> <<>>, constants |-> <<>>]
    /\ symtab = <<>>
    /\ diagnostics = <<>>
    /\ compile_ok = TRUE
    /\ vm = NewVM
    /\ g_globals = <<>>
    /\ result = -1
    /\ output = <<>>
    /\ lexer = <<>>
    /\ tokens = <<>>
    /\ jchunk = <<>>
    /\ jsites = <<>>
    /\ file = <<>>
    /\ other_vm = <<>>
    /\ heap = <<>>

ParserOtherVars ==
    <<operand_order, ast, chunk, symtab, diagnostics, compile_ok, vm,
      g_globals, result, output, lexer, tokens, jchunk, jsites, file, heap,
      other_vm>>

\* one turn of parse_script's loop: parse_statement; a NULL statement frees
\* the root and makes parse_script return NULL
ParseStatement ==
    /\ pc = "parsing"
    /\ current_token(parser).type # "TOKEN_EOF"
    /\ \E s \in {parse_statement(parser)} :
          IF s.node = NoNode
          THEN /\ parser' = [report_error(s.parser, "Failed to parse statement")
                                EXCEPT !.statements = <<>>, !.root = "NULL"]
               /\ pc' = "parsed"
          ELSE /\ parser' = [s.parser EXCEPT !.statements = Append(@, s.node)]
               /\ pc' = "parsing"
    /\ UNCHANGED ParserOtherVars

\* parse_script: the loop ends at TOKEN_EOF and the root block is returned
ParseScriptReturn ==
    /\ pc = "parsing"
    /\ current_token(parser).type = "TOKEN_EOF"
    /\ pc' = "parsed"
    /\ UNCHANGED <<parser, ParserOtherVars>>

NextParser == ParseStatement \/ ParseScriptReturn

SpecParser == InitParser /\ [][NextParser]_vars

\* parse_script is about to parse a statement that starts with a token no
\* statement starts with.
AtUnexpectedToken ==
    /\ pc = "parsing"
    /\ current_token(parser).type = "TOKEN_PUNCTUATION"

\* C20: at an unexpected token the parser reports a diagnostic, moves to the
\* token after the next statement boundary, and parse_script goes on parsing
\* from there.
C20_ParsingContinuesAfterError ==
    [][AtUnexpectedToken =>
          /\ Len(parser'.stderr) > Len(parser.stderr)
          /\ parser'.position = parser_recover(parser).position
          /\ pc' = "parsing"
          /\ parser'.root = "AST_BLOCK"]_vars

----------------------------------------------------------------------------
\* parse_script on the token streams of whole programs: statements on lines
\* of their own, with or without newlines after the last one, and programs
\* with a range iterator.

MaxStatements == 3
MaxTrailing == 2
MaxRange == 5

NewlineToken == ParserToken("TOKEN_NEWLINE", "")

\* well-formed statements: a variable, a number, an assignment, a
\* declaration, a sum
StatementPool ==
    { <<ParserToken("TOKEN_IDENTIFIER", "a")>>,
      <<ParserToken("TOKEN_NUMBER", "1")>>,
      <<ParserToken("TOKEN_IDENTIFIER", "a"), ParserToken("TOKEN_OPERATOR", "="),
        ParserToken("TOKEN_NUMBER", "1")>>,
      <<ParserToken("TOKEN_IDENTIFIER", "a"), ParserToken("TOKEN_PUNCTUATION", ":"),
        ParserToken("TOKEN_NUMBER", "1")>>,
      <<ParserToken("TOKEN_IDENTIFIER", "a"), ParserToken("TOKEN_OPERATOR", "+"),
        ParserToken("TOKEN_NUMBER", "1")>> }

RECURSIVE JoinStatements(_, _)
\* the statements with one Newline token between two of them
JoinStatements(statements, i) ==
    IF i > Len(statements) THEN <<>>
    ELSE statements[i]
         \o (IF i < Len(statements) THEN <<NewlineToken>> ELSE <<>>)
         \o JoinStatements(statements, i + 1)

\* trailing Newline tokens stand between the last statement and Eof
NewlinePrograms ==
    UNION { { JoinStatements(statements, 1) \o [j \in 1..trailing |-> NewlineToken] :
                statements \in [1..n -> StatementPool] } :
            <<n, trailing>> \in (1..MaxStatements) \X (0..MaxTrailing) }

Lexeme(n) == <<"0", "1", "2", "3", "4", "5", "6">>[n + 1]

\* the tokens of
\*   sum: 0
\*   i: a..b
\*     sum = sum + i
\*   print(sum)
RangeProgram(a, b) ==
    << ParserToken("TOKEN_IDENTIFIER", "sum"), ParserToken("TOKEN_PUNCTUATION", ":"),
       ParserToken("TOKEN_NUMBER", "0"), NewlineToken,
       ParserToken("TOKEN_IDENTIFIER", "i"), ParserToken("TOKEN_PUNCTUATION", ":"),
       ParserToken("TOKEN_NUMBER", Lexeme(a)), ParserToken("TOKEN_OPERATOR", ".."),
       ParserToken("TOKEN_NUMBER", Lexeme(b)), NewlineToken,
       ParserToken("TOKEN_INDENT", ""),
       ParserToken("TOKEN_IDENTIFIER", "sum"), ParserToken("TOKEN_OPERATOR", "="),
       ParserToken("TOKEN_IDENTIFIER", "sum"), ParserToken("TOKEN_OPERATOR", "+"),
       ParserToken("TOKEN_IDENTIFIER", "i"), NewlineToken,
       ParserToken("TOKEN_DEDENT", ""),
       ParserToken("TOKEN_IDENTIFIER", "print"), ParserToken("TOKEN_PUNCTUATION", "("),
       ParserToken("TOKEN_IDENTIFIER", "sum"), ParserToken("TOKEN_PUNCTUATION", ")") >>

RangePrograms ==
    { RangeProgram(a, b) : <<a, b>> \in {r \in (1..MaxRange) \X (1..MaxRange) :
                                            r[1] <= r[2]} }

InitPrograms ==
    /\ pc = "parsing"
    /\ \E toks \in NewlinePrograms \cup RangePrograms :
          parser = [tokens |-> toks, position |-> 0, statements |-> <<>>,
                    stderr |-> <<>>, root |-> "AST_BLOCK"]
    /\ operand_order = "left_first"
    /\ ast = <<>>
    /\ chunk = [code |-> <<>>, constants |-> <<>>]
    /\ symtab = <<>>
    /\ diagnostics = <<>>
    /\ compile_ok = TRUE
    /\ vm = NewVM
    /\ g_globals = <<>>
    /\ result = -1
    /\ output = <<>>
    /\ lexer = <<>>
    /\ tokens = <<>>
    /\ jchunk = <<>>
    /\ jsites = <<>>
    /\ file = <<>>
    /\ other_vm = <<>>
    /\ heap = <<>>

SpecPrograms == InitPrograms /\ [][NextParser]_vars

\* C33: parse_script returns, for the program with the iterator `i: a..b`,
\* an AST with the range iterator over i, the node for which the compiler
\* emits the loop that runs the body for i = a, ..., b.
C33_RangeIteratorRuns ==
    (pc = "parsed" /\ parser.tokens \in RangePrograms) =>
        /\ parser.root = "AST_BLOCK"
        /\ \E k \in 1..Len(parser.statements) :
              /\ parser.statements[k].type = "AST_NAKED_ITERATOR"
              /\ parser.statements[k].variable_name = "i"

\* C37: parse_script returns an AST for well-formed statements separated by
\* Newline tokens, with or without Newline tokens before Eof.
C37_TrailingNewlinesParse ==
    (pc = "parsed" /\ parser.tokens \in NewlinePrograms) =>
        parser.root = "AST_BLOCK"


----------------------------------------------------------------------------
(* Indented blocks from the text to the AST: the lexer's tokens, in the    *)
(* order the parser asks for them, then parse_script on them.              *)

MaxBlockLines == 4

\* the lines of the texts: `if (a)` and `d`
BlockBodies == << <<"i", "f", " ", "(", "a", ")">>, <<"d">> >>

RECURSIVE JoinBlockLines(_, _)
JoinBlockLines(lines, i) ==
    IF i > Len(lines) THEN <<>>
    ELSE Spaces(lines[i][1]) \o BlockBodies[lines[i][2]]
         \o (IF i < Len(lines) THEN <<"\n">> ELSE <<>>)
         \o JoinBlockLines(lines, i + 1)

InitBlocks ==
    /\ pc = "lexing"
    /\ \E n \in 1..MaxBlockLines :
          \E lines \in [1..n -> (0..MaxIndent) \X (1..Len(BlockBodies))] :
             lexer = lexer_init(JoinBlockLines(lines, 1))
    /\ parser = [tokens |-> <<>>, position |-> 0, statements |-> <<>>,
                 stderr |-> <<>>, root |-> "AST_BLOCK"]
    /\ operand_order = "left_first"
    /\ ast = <<>>
    /\ chunk = [code |-> <<>>, constants |-> <<>>]
    /\ symtab = <<>>
    /\ diagnostics = <<>>
    /\ compile_ok = TRUE
    /\ vm = NewVM
    /\ g_globals = <<>>
    /\ result = -1
    /\ output = <<>>
    /\ tokens = <<>>
    /\ jchunk = <<>>
    /\ jsites = <<>>
    /\ file = <<>>
    /\ other_vm = <<>>
    /\ heap = <<>>

\* parser_create and parser_advance: the token lexer_next_token returns
\* becomes the parser's next token; TOKEN_EOF is the last one.
ParserNextToken ==
    /\ pc = "lexing"
    /\ \E t \in {lexer_next_token(lexer)} :
       /\ lexer' = t.lexer
       /\ tokens' = Append(tokens, t.type)
       /\ parser' = [parser EXCEPT
                        !.tokens = Append(@, ParserToken(t.type, t.value))]
       /\ pc' = IF t.type = "TOKEN_EOF" THEN "parsing" ELSE "lexing"
    /\ UNCHANGED <<CompileVars, vm, g_globals, result, output, jchunk, jsites,
                   file, heap, other_vm>>

NextBlocks == ParserNextToken \/ ParseStatement \/ ParseScriptReturn

SpecBlocks == InitBlocks /\ [][NextBlocks]_vars

\* The offset of the first character of the line that holds offset pos.
RECURSIVE LineStart(_, _)
LineStart(source, pos) ==
    IF pos = 0 \/ source[pos] = "\n" THEN pos
    ELSE LineStart(source, pos - 1)

\* The text ends with the line `d` at indent width 0, and the line before
\* it is indented.
TopLevelLineAfterDeeper ==
    LET source == lexer.source
        n == Len(source)
    IN /\ n >= 3
       /\ source[n] = "d"
       /\ source[n - 1] = "\n"
       /\ source[LineStart(source, n - 2) + 1] = " "

\* C36: a statement on a line of indent width w that follows more deeply
\* indented lines is a member of the block whose indentation is w; for
\* w = 0: when the text ends with the unindented line `d` after indented
\* lines and parse_script has returned an AST, the last statement of the
\* root block is the variable d.
C36_StatementJoinsItsBlock ==
    (TopLevelLineAfterDeeper /\ pc = "parsed" /\ parser.root # "NULL") =>
        /\ parser.statements # <<>>
        /\ parser.statements[Len(parser.statements)] = Variable("d")

----------------------------------------------------------------------------
\* parse_expression on operator sequences: the expressions
\* a op1 b op2 c ... with the binary operators of the lexer and `=`.

MaxOperators == 2

BinaryOperators ==
    {"||", "&&", "==", "!=", "<", "<=", ">", ">=", "+", "-", "*", "/", "%"}

OperandNames == <<"a", "b", "c", "d", "e", "f">>

Operand(i) ==
    ParserToken("TOKEN_IDENTIFIER", OperandNames[((i - 1) % 6) + 1])

\* the tokens of  a ops[1] b ops[2] c ...
ExpressionTokens(ops) ==
    [i \in 1..(2 * Len(ops) + 1) |->
        IF i % 2 = 1 THEN Operand((i + 1) \div 2)
        ELSE ParserToken("TOKEN_OPERATOR", ops[i \div 2])]

InitExpr ==
    /\ pc = "expression"
    /\ \E n \in 1..MaxOperators :
          \E ops \in [1..n -> BinaryOperators \cup {"="}] :
             parser = [tokens |-> ExpressionTokens(ops), position |-> 0,
                       statements |-> <<>>, stderr |-> <<>>,
                       root |-> "AST_BLOCK"]
    /\ operand_order = "left_first"
    /\ ast = <<>>
    /\ chunk = [code |-> <<>>, constants |-> <<>>]
    /\ symtab = <<>>
    /\ diagnostics = <<>>
    /\ compile_ok = TRUE
    /\ vm = NewVM
    /\ g_globals = <<>>
    /\ result = -1
    /\ output = <<>>
    /\ lexer = <<>>
    /\ tokens = <<>>
    /\ jchunk = <<>>
    /\ jsites = <<>>
    /\ file = <<>>
    /\ other_vm = <<>>
    /\ heap = <<>>

\* ASTNode* e = parse_expression(parser, 0);
ParseExpression ==
    /\ pc = "expression"
    /\ LET e == parse_expression(parser, 0) IN
          parser' = [e.parser EXCEPT !.statements = <<e.node>>]
    /\ pc' = "expressed"
    /\ UNCHANGED ParserOtherVars

NextExpr == ParseExpression

SpecExpr == InitExpr /\ [][NextExpr]_vars

\* the operator at token position 2 i
OperatorAt(i) == parser.tokens[2 * i].value

\* a op1 b op2 c with two binary operators has been parsed
ParsedTwoOperators ==
    /\ pc = "expressed"
    /\ Len(parser.tokens) = 5
    /\ OperatorAt(1) \in BinaryOperators
    /\ OperatorAt(2) \in BinaryOperators

\* the precedence levels || < && < == != < < <= > >= < + - < * / %
Level(op) ==
    CHOOSE l \in 1..6 :
        op \in << {"||"}, {"&&"}, {"==", "!="}, {"<", "<=", ">", ">="},
                  {"+", "-"}, {"*", "/", "%"} >>[l]

\* C21: a op1 b op2 c is parsed as (a op1 b) op2 c when the level of op1 is
\* at least that of op2, and as a op1 (b op2 c) otherwise.
C21_PrecedenceAndLeftAssociativity ==
    ParsedTwoOperators =>
        LET a == Variable("a")
            b == Variable("b")
            c == Variable("c")
            op1 == OperatorAt(1)
            op2 == OperatorAt(2)
        IN parser.statements[1] =
              IF Level(op1) >= Level(op2)
              THEN BinaryOp(BinaryOp(a, op1, b), op2, c)
              ELSE BinaryOp(a, op1, BinaryOp(b, op2, c))

\* a + b * c has been parsed, with the product as the right operand
C21_Witness_HigherPrecedenceOnTheRight ==
    /\ ParsedTwoOperators
    /\ OperatorAt(1) = "+"
    /\ OperatorAt(2) = "*"
    /\ parser.statements[1].right.type = "AST_BINARY_OP"

\* C22: a = b = c is parsed as a = (b = c), and in a op b = c the `=` does
\* not take b alone as its left-hand side.
C22_AssignmentBindsLoosest ==
    (pc = "expressed" /\ Len(parser.tokens) = 5 /\ OperatorAt(2) = "=") =>
        IF OperatorAt(1) = "="
        THEN parser.statements[1] =
                Assignment("a", Assignment("b", Variable("c")))
        ELSE ~(/\ parser.statements[1].type = "AST_BINARY_OP"
               /\ parser.statements[1].right.type = "AST_ASSIGNMENT")

============================================================================
